---- MODULE Spec2Model ----
(***************************************************************************)
(* Bulk job submission (api/lambda/trigger_batch_jobs.py) and batch status *)
(* aggregation (api/lambda/get_batch_status.py).                           *)
(*                                                                         *)
(* Spec       : the accept path, the asynchronous hand-off, the submission *)
(*              phase and the status query working on the same stores.     *)
(* SpecStatus : the status query on an outcome record the submission phase *)
(*              can write, with the scheduler's jobs moving through their  *)
(*              lifecycle.                                                 *)
(* SpecQueries: the status query call by call, two executions at a time.   *)
(* SpecPool, SpecPause : the worker pool and the pauses of the submission  *)
(*              phase, job by job.                                         *)
(* SpecAccept, SpecChunk, SpecFailed, SpecJob, SpecName, SpecTerminate :   *)
(*              the accept path, large outcome records, the job status     *)
(*              query, the derived job name and the terminate handler.     *)
(*                                                                         *)
(* A batch id "batch-YYYYMMDD-HHMMSS" is modelled by the UTC second it is  *)
(* formatted from; a job name by the job's position in the request.        *)
(***************************************************************************)
EXTENDS Integers, Sequences, FiniteSets, TLC

\* ------------------------------------------------------------ bounds ----
MaxJobs == 2          \* jobs in one bulk request (Spec)
MaxRequests == 2      \* bulk requests received
MaxClock == 2         \* UTC seconds that pass
MaxDeliveries == 2    \* deliveries of one asynchronous invocation
MaxStatusJobs == 3    \* jobs in the outcome record (SpecStatus)
MaxChunkJobs == 201   \* jobs in the outcome record (SpecChunk)
MaxFailedJobs == 11   \* jobs in the outcome record (SpecFailed)
MaxEvents == 2        \* log events returned to one job status query
MaxListed == 2        \* object keys returned to one job status query
LongNameLen == 130    \* characters of the longest repository name drawn
MaxTermJobs == 1      \* jobs the scheduler knows (SpecTerminate)
MaxTermCalls == 2     \* terminate_job calls issued
MaxPoolJobs == 51     \* jobs of the batch (SpecPool)
MaxPauseJobs == 100   \* jobs of the batch (SpecPause)
MaxQueryJobs == 1     \* jobs in the outcome record (SpecQueries)

\* ------------------------------------------------- program constants ----
DescribeChunk == 100  \* ids per describe_jobs call
FailedJobsLimit == 10 \* failed jobs listed in a status response
NameLimit == 128      \* characters kept of a derived job name
MaxWorkers == 10      \* ThreadPoolExecutor(max_workers=10)
PauseEvery == 50      \* submissions handed to the pool between two pauses

NoBatch == 0          \* no batch id (a missing batchId path parameter)
NoJobId == 0          \* 'batchJobId': None

\* s3.put_object on a bucket, a function from the keys it holds to objects.
PutObject(bucket, key, object) ==
    [k \in DOMAIN bucket \cup {key} |-> IF k = key THEN object ELSE bucket[k]]

VARIABLES
    clock,        \* datetime.utcnow(), in seconds
    received,     \* number of bulk requests received so far
    request,      \* the body of the last bulk request
    sync,         \* position of the accept path (handle_sync_request)
    syncResp,     \* the HTTP response of the last bulk request
    s3Source,     \* SOURCE_BUCKET: batch-jobs/{batchId}-input.json
    s3Output,     \* OUTPUT_BUCKET: batch-jobs/{batchId}-output.json
    invocations,  \* asynchronous invocations accepted by lambda_client.invoke
    exec,         \* position of the submission phase (handle_async_processing)
    batchJobs,    \* the scheduler: job id -> status
    nextJobId,    \* the scheduler's next job id
    inWrites,     \* per batch id, the number of intent records written
    outWrites,    \* per batch id, the number of outcome records written
    statusOut,    \* the last status query: response, describe calls made and
                  \* job views, kept while the scheduler's jobs stay as they were
    completedSeen,\* the batch ids a status query has answered COMPLETED for
    jobOut,       \* the last job status query (get_job_status.py)
    nameOut,      \* the last job name derivation: inputs and names
    term,         \* the terminate handler (terminate_job.py)
    pool,         \* the worker pool of one submission phase
    queries       \* the batch status queries in progress, step by step

vars == <<clock, received, request, sync, syncResp, s3Source, s3Output,
          invocations, exec, batchJobs, nextJobId, inWrites, outWrites, statusOut,
          completedSeen, jobOut, nameOut, term, pool, queries>>

BatchIds == 1..MaxClock

StatusKeys == <<"SUBMITTED", "PENDING", "RUNNABLE", "STARTING", "RUNNING",
                "SUCCEEDED", "FAILED">>

StatusSet == {StatusKeys[i] : i \in 1..Len(StatusKeys)}

\* ------------------------------------------------------- the requests ----
\* A job of a request: which of the fields 'source' and 'command' it has.
JobSpecs == [source : BOOLEAN, command : BOOLEAN]

RECURSIVE SeqsUpTo(_, _)
SeqsUpTo(S, n) ==
    IF n = 0 THEN {<<>>}
    ELSE LET shorter == SeqsUpTo(S, n - 1)
         IN  shorter \cup {Append(q, x) : q \in {r \in shorter : Len(r) = n - 1}, x \in S}

\* The body of POST /jobs/batch: not JSON, JSON without 'jobs', or JSON with
\* a (possibly empty) jobs array.
Bodies ==
    {[kind |-> "malformed", hasJobs |-> FALSE, jobs |-> <<>>],
     [kind |-> "json", hasJobs |-> FALSE, jobs |-> <<>>]}
    \cup {[kind |-> "json", hasJobs |-> TRUE, jobs |-> js] : js \in SeqsUpTo(JobSpecs, MaxJobs)}

error_response(status_code, message) ==
    [statusCode |-> status_code, error |-> message]

\* No response yet.
NoResponse == [statusCode |-> 0]

NoRequest == [kind |-> "none", hasJobs |-> FALSE, jobs |-> <<>>]

\* Mutant: only 'command' is required.
FirstBadJob_commandOnly(jobs) ==
    LET bad == {i \in 1..Len(jobs) : ~jobs[i].command}
    IN  IF bad = {} THEN -1
        ELSE (CHOOSE i \in bad : \A j \in bad : i <= j) - 1

\* The first job (0-based, as enumerate counts) the validation loop rejects,
\* or -1 when it rejects none.
FirstBadJob(jobs) ==
    LET bad == {i \in 1..Len(jobs) : ~jobs[i].source \/ ~jobs[i].command}
    IN  IF bad = {} THEN -1
        ELSE (CHOOSE i \in bad : \A j \in bad : i <= j) - 1

\* The jobs once the validation loop has given each one its jobName.
NamedJobs(jobs) ==
    [i \in 1..Len(jobs) |->
        [source |-> jobs[i].source, command |-> jobs[i].command, jobName |-> i]]

\* Lines 38-50 of handle_sync_request: the response that rejects the body, or
\* NoResponse when the body passes.
Validate(body) ==
    IF body.kind = "malformed" THEN error_response(500, <<"JSONDecodeError">>)
    ELSE IF ~body.hasJobs \/ body.jobs = <<>>
         THEN error_response(400, <<"Missing or empty jobs array">>)
    ELSE IF FirstBadJob(body.jobs) # -1
         THEN error_response(400, <<"Job", FirstBadJob(body.jobs),
                                    "missing required fields: source, command">>)
    ELSE NoResponse

SyncIdle == [pc |-> "idle", batchId |-> NoBatch, jobs |-> <<>>]

\* Mutant: the intent record is written before the jobs are validated.
SyncReceive_writeBeforeValidate(body) ==
    /\ sync.pc = "idle"
    /\ received < MaxRequests
    /\ received' = received + 1
    /\ request' = body
    /\ IF Validate(body) # NoResponse
       THEN /\ syncResp' = Validate(body)
            /\ sync' = SyncIdle
            /\ IF body.kind = "json" /\ body.hasJobs /\ body.jobs # <<>>
               THEN /\ s3Source' = PutObject(s3Source, clock,
                                       [batchName |-> "batch", jobs |-> body.jobs])
                    /\ inWrites' = [inWrites EXCEPT ![clock] = @ + 1]
               ELSE UNCHANGED <<s3Source, inWrites>>
       ELSE /\ syncResp' = NoResponse
            /\ sync' = [pc |-> "put_object", batchId |-> clock,
                        jobs |-> NamedJobs(body.jobs)]
            /\ UNCHANGED <<s3Source, inWrites>>
    /\ UNCHANGED <<clock, s3Output, invocations, exec, batchJobs,
                   nextJobId, outWrites, statusOut>>
    /\ UNCHANGED <<completedSeen, jobOut, nameOut, term, pool>>
    /\ UNCHANGED queries

\* handle_sync_request up to the batch id: the body is parsed and validated,
\* the job names are filled in and the batch id is taken from the clock.
SyncReceive(body) ==
    /\ sync.pc = "idle"
    /\ received < MaxRequests
    /\ received' = received + 1
    /\ request' = body
    /\ IF Validate(body) # NoResponse
       THEN /\ syncResp' = Validate(body)
            /\ sync' = SyncIdle
       ELSE /\ syncResp' = NoResponse
            /\ sync' = [pc |-> "put_object", batchId |-> clock,
                        jobs |-> NamedJobs(body.jobs)]
    /\ UNCHANGED <<clock, s3Source, s3Output, invocations, exec, batchJobs,
                   nextJobId, inWrites, outWrites, statusOut>>
    /\ UNCHANGED <<completedSeen, jobOut, nameOut, term, pool>>
    /\ UNCHANGED queries

\* Mutant: a failed put_object is swallowed and the handler carries on.
SyncPutObject_errorSwallowed ==
    /\ sync.pc = "put_object"
    /\ \/ /\ s3Source' = PutObject(s3Source, sync.batchId,
                                   [batchName |-> "batch", jobs |-> sync.jobs])
          /\ inWrites' = [inWrites EXCEPT ![sync.batchId] = @ + 1]
       \/ UNCHANGED <<s3Source, inWrites>>
    /\ sync' = [sync EXCEPT !.pc = "invoke"]
    /\ UNCHANGED <<clock, received, request, syncResp, s3Output, invocations,
                   exec, batchJobs, nextJobId, outWrites, statusOut>>
    /\ UNCHANGED <<completedSeen, jobOut, nameOut, term, pool>>
    /\ UNCHANGED queries

\* s3.put_object of the intent record: it succeeds, or it raises and the
\* handler's except clause answers 500.
SyncPutObject ==
    /\ sync.pc = "put_object"
    /\ \/ /\ s3Source' = PutObject(s3Source, sync.batchId,
                                   [batchName |-> "batch", jobs |-> sync.jobs])
          /\ inWrites' = [inWrites EXCEPT ![sync.batchId] = @ + 1]
          /\ sync' = [sync EXCEPT !.pc = "invoke"]
          /\ UNCHANGED syncResp
       \/ /\ syncResp' = error_response(500, <<"put_object failed">>)
          /\ sync' = SyncIdle
          /\ UNCHANGED <<s3Source, inWrites>>
    /\ UNCHANGED <<clock, received, request, s3Output, invocations, exec, batchJobs,
                   nextJobId, outWrites, statusOut>>
    /\ UNCHANGED <<completedSeen, jobOut, nameOut, term, pool>>
    /\ UNCHANGED queries

\* lambda_client.invoke(InvocationType='Event') and the 200 response that
\* follows it; or the invoke raises and the except clause answers 500.
SyncInvoke ==
    /\ sync.pc = "invoke"
    /\ \/ /\ invocations' = Append(invocations,
                                [batchId |-> sync.batchId, batchName |-> "batch",
                                 totalJobs |-> Len(sync.jobs), jobs |-> sync.jobs,
                                 deliveries |-> 0])
          /\ syncResp' = [statusCode |-> 200, batchId |-> sync.batchId,
                          status |-> "PROCESSING", totalJobs |-> Len(sync.jobs)]
       \/ /\ syncResp' = error_response(500, <<"invoke failed">>)
          /\ UNCHANGED invocations
    /\ sync' = SyncIdle
    /\ UNCHANGED <<clock, received, request, s3Source, s3Output, exec, batchJobs,
                   nextJobId, inWrites, outWrites, statusOut>>
    /\ UNCHANGED <<completedSeen, jobOut, nameOut, term, pool>>
    /\ UNCHANGED queries

\* A second passes.
Tick ==
    /\ clock < MaxClock
    /\ clock' = clock + 1
    /\ UNCHANGED <<received, request, sync, syncResp, s3Source, s3Output, invocations,
                   exec, batchJobs, nextJobId, inWrites, outWrites, statusOut>>
    /\ UNCHANGED <<completedSeen, jobOut, nameOut, term, pool>>
    /\ UNCHANGED queries

\* ------------------------------------------------ the submission phase ----
ExecIdle == [pc |-> "idle", batchId |-> NoBatch, batchName |-> "",
             jobs |-> <<>>, results |-> <<>>]

\* Lambda delivers an accepted asynchronous invocation to lambda_handler, which
\* enters handle_async_processing. The hand-off is at-least-once: an invocation
\* may be delivered again, whether the earlier execution returned or raised.
\* Executions share nothing but the buckets and the scheduler, and run here
\* one after the other.
AsyncStart(k) ==
    /\ exec.pc = "idle"
    /\ invocations[k].deliveries < MaxDeliveries
    /\ invocations' = [invocations EXCEPT ![k].deliveries = @ + 1]
    /\ exec' =
                  [pc |-> "submit", batchId |-> invocations[k].batchId,
                   batchName |-> invocations[k].batchName,
                   jobs |-> invocations[k].jobs, results |-> <<>>]
    /\ UNCHANGED <<clock, received, request, sync, syncResp, s3Source, s3Output,
                   batchJobs, nextJobId, inWrites, outWrites, statusOut>>
    /\ UNCHANGED <<completedSeen, jobOut, nameOut, term, pool>>
    /\ UNCHANGED queries

\* submit_single_job: the outcome of one job, from what batch.submit_job
\* did: it returned jobId, or it raised (jobId = NoJobId).
submit_single_job(job, jobId) ==
    IF jobId # NoJobId
    THEN [jobName |-> job.jobName, batchJobId |-> jobId, status |-> "SUBMITTED"]
    ELSE [jobName |-> job.jobName, batchJobId |-> NoJobId, status |-> "FAILED",
          error |-> "submit_job failed"]

\* The jobs of the execution whose future has not completed yet.
Unfinished ==
    {i \in 1..Len(exec.jobs) :
        \A r \in 1..Len(exec.results) : exec.results[r].jobName # exec.jobs[i].jobName}

\* Mutant: submit_single_job has no except clause, so the exception of a
\* failed batch.submit_job leaves the pool and the handler re-raises.
SubmitJob_abortOnFailure(i) ==
    /\ exec.pc = "submit"
    /\ i \in Unfinished
    /\ \/ /\ batchJobs' = [id \in DOMAIN batchJobs \cup {nextJobId} |->
                              IF id = nextJobId THEN "SUBMITTED" ELSE batchJobs[id]]
          /\ nextJobId' = nextJobId + 1
          /\ exec' = [exec EXCEPT !.results =
                        Append(@, submit_single_job(exec.jobs[i], nextJobId))]
       \/ /\ exec' = ExecIdle
          /\ UNCHANGED <<batchJobs, nextJobId>>
    /\ UNCHANGED <<clock, received, request, sync, syncResp, s3Source, s3Output,
                   invocations, inWrites, outWrites, statusOut>>
    /\ UNCHANGED <<completedSeen, jobOut, nameOut, term, pool>>
    /\ UNCHANGED queries

\* One future of the pool completes: batch.submit_job is called for job i and
\* as_completed hands the outcome to results.append.
SubmitJob(i) ==
    /\ exec.pc = "submit"
    /\ i \in Unfinished
    /\ \/ /\ batchJobs' = [id \in DOMAIN batchJobs \cup {nextJobId} |->
                              IF id = nextJobId THEN "SUBMITTED" ELSE batchJobs[id]]
          /\ nextJobId' = nextJobId + 1
          /\ exec' = [exec EXCEPT !.results =
                        Append(@, submit_single_job(exec.jobs[i], nextJobId))]
       \/ /\ exec' = [exec EXCEPT !.results =
                        Append(@, submit_single_job(exec.jobs[i], NoJobId))]
          /\ UNCHANGED <<batchJobs, nextJobId>>
    /\ UNCHANGED <<clock, received, request, sync, syncResp, s3Source, s3Output,
                   invocations, inWrites, outWrites, statusOut>>
    /\ UNCHANGED <<completedSeen, jobOut, nameOut, term, pool>>
    /\ UNCHANGED queries

CountStatus(results, status) ==
    Cardinality({i \in 1..Len(results) : results[i].status = status})

\* Mutant: 'failed' tallies a status no outcome carries.
OutputData_failedMiscounted(batch_id, batch_name, jobs, results) ==
    [batchId |-> batch_id, batchName |-> batch_name, totalJobs |-> Len(jobs),
     submitted |-> CountStatus(results, "SUBMITTED"),
     failed |-> CountStatus(results, "ERROR"),
     jobs |-> results]

\* output_data of handle_async_processing.
OutputData(batch_id, batch_name, jobs, results) ==
    [batchId |-> batch_id, batchName |-> batch_name, totalJobs |-> Len(jobs),
     submitted |-> CountStatus(results, "SUBMITTED"),
     failed |-> CountStatus(results, "FAILED"),
     jobs |-> results]

\* The pool is left once every future has completed; s3.put_object then
\* writes the outcome record and the handler returns, or it raises and the
\* handler re-raises.
AsyncPutObject ==
    /\ exec.pc = "submit"
    /\ Unfinished = {}
    /\ \/ /\ s3Output' = PutObject(s3Output, exec.batchId,
                                   OutputData(exec.batchId, exec.batchName,
                                              exec.jobs, exec.results))
          /\ outWrites' = [outWrites EXCEPT ![exec.batchId] = @ + 1]
       \/ UNCHANGED <<s3Output, outWrites>>
    /\ exec' = ExecIdle
    /\ UNCHANGED <<clock, received, request, sync, syncResp, s3Source, invocations,
                   batchJobs, nextJobId, inWrites, statusOut>>
    /\ UNCHANGED <<completedSeen, jobOut, nameOut, term, pool>>
    /\ UNCHANGED queries

\* ----------------------------------------------------- the status query ----
\* job_ids: the backend ids of the jobs that have one, in record order.
JobIdsOf(jobs) ==
    LET HasId(job) == job.batchJobId # NoJobId
        with_id == SelectSeq(jobs, HasId)
    IN  [k \in 1..Len(with_id) |-> with_id[k].batchJobId]

\* Mutant: a chunk starts at the last id of the chunk before it.
RECURSIVE Chunks_overlapping(_)
Chunks_overlapping(job_ids) ==
    IF job_ids = <<>> THEN <<>>
    ELSE IF Len(job_ids) <= DescribeChunk THEN <<job_ids>>
    ELSE <<SubSeq(job_ids, 1, DescribeChunk)>>
         \o Chunks_overlapping(SubSeq(job_ids, DescribeChunk, Len(job_ids)))

\* for i in range(0, len(job_ids), 100): job_ids[i:i+100]
RECURSIVE Chunks(_)
Chunks(job_ids) ==
    IF job_ids = <<>> THEN <<>>
    ELSE IF Len(job_ids) <= DescribeChunk THEN <<job_ids>>
    ELSE <<SubSeq(job_ids, 1, DescribeChunk)>>
         \o Chunks(SubSeq(job_ids, DescribeChunk + 1, Len(job_ids)))

\* batch.describe_jobs(jobs=chunk)['jobs']: an entry for every id of the
\* chunk the scheduler still knows.
describe_jobs(chunk, scheduler) ==
    LET Known(id) == id \in DOMAIN scheduler
        known == SelectSeq(chunk, Known)
    IN  [k \in 1..Len(known) |-> [jobId |-> known[k], status |-> scheduler[known[k]]]]

\* all_job_statuses: the describe results of the chunks, concatenated.
RECURSIVE AllJobStatuses(_, _)
AllJobStatuses(chunks, scheduler) ==
    IF chunks = <<>> THEN <<>>
    ELSE describe_jobs(Head(chunks), scheduler) \o AllJobStatuses(Tail(chunks), scheduler)

\* status_map = {job['jobId']: job['status'] for job in all_job_statuses}
StatusMap(all_job_statuses) ==
    [id \in {all_job_statuses[i].jobId : i \in 1..Len(all_job_statuses)} |->
        LET last == CHOOSE i \in 1..Len(all_job_statuses) :
                        /\ all_job_statuses[i].jobId = id
                        /\ \A j \in 1..Len(all_job_statuses) :
                               all_job_statuses[j].jobId = id => j <= i
        IN  all_job_statuses[last].status]

\* Mutant: a job the scheduler returned no entry for is left as recorded.
WithCurrentStatus_knownOnly(job, status_map) ==
    IF job.batchJobId # NoJobId /\ job.batchJobId \in DOMAIN status_map
    THEN [k \in DOMAIN job \cup {"currentStatus"} |->
             IF k = "currentStatus" THEN status_map[job.batchJobId] ELSE job[k]]
    ELSE job

\* The first loop over batch_data['jobs']: a job with a backend id gets
\* 'currentStatus', a job without one is left as recorded.
WithCurrentStatus(job, status_map) ==
    IF job.batchJobId # NoJobId
    THEN [k \in DOMAIN job \cup {"currentStatus"} |->
             IF k = "currentStatus"
             THEN (IF job.batchJobId \in DOMAIN status_map
                   THEN status_map[job.batchJobId] ELSE "UNKNOWN")
             ELSE job[k]]
    ELSE job

\* Mutant: a job without 'currentStatus' is not tallied from its recorded
\* status.
TalliedStatus_noFallback(job) ==
    IF "currentStatus" \in DOMAIN job THEN job.currentStatus ELSE "UNKNOWN"

\* job.get('currentStatus', job.get('status', 'FAILED'))
TalliedStatus(job) ==
    IF "currentStatus" \in DOMAIN job THEN job.currentStatus
    ELSE IF "status" \in DOMAIN job THEN job.status
    ELSE "FAILED"

\* Mutant: a status outside the seven keys is tallied under FAILED.
StatusCounts_unknownAsFailed(jobs) ==
    [st \in StatusSet |->
        Cardinality({i \in 1..Len(jobs) :
                        \/ TalliedStatus(jobs[i]) = st
                        \/ st = "FAILED" /\ TalliedStatus(jobs[i]) \notin StatusSet})]

\* status_counts after the second loop over batch_data['jobs'].
StatusCounts(jobs) ==
    [st \in StatusSet |->
        Cardinality({i \in 1..Len(jobs) : TalliedStatus(jobs[i]) = st})]

\* Mutant: the PENDING branch is tested before the RUNNING branch.
OverallStatus_pendingFirst(status_counts, total_jobs) ==
    LET total_completed == status_counts["SUCCEEDED"] + status_counts["FAILED"]
    IN  IF total_completed = total_jobs THEN "COMPLETED"
        ELSE IF status_counts["RUNNABLE"] > 0 \/ status_counts["PENDING"] > 0
             THEN "PENDING"
        ELSE IF status_counts["RUNNING"] > 0 \/ status_counts["STARTING"] > 0
             THEN "RUNNING"
        ELSE "PROCESSING"

\* The overall batch status, from the counts and batch_data['totalJobs'].
OverallStatus(status_counts, total_jobs) ==
    LET total_completed == status_counts["SUCCEEDED"] + status_counts["FAILED"]
    IN  IF total_completed = total_jobs THEN "COMPLETED"
        ELSE IF status_counts["RUNNING"] > 0 \/ status_counts["STARTING"] > 0
             THEN "RUNNING"
        ELSE IF status_counts["RUNNABLE"] > 0 \/ status_counts["PENDING"] > 0
             THEN "PENDING"
        ELSE "PROCESSING"

\* round((total_completed / total_jobs) * 100, 1) if total_jobs > 0 else 0,
\* in tenths of a percent (333 is 33.3); round() rounds a tie to even.
Progress(total_completed, total_jobs) ==
    IF total_jobs > 0
    THEN LET q == (1000 * total_completed) \div total_jobs
             r == (1000 * total_completed) % total_jobs
         IN  IF 2 * r > total_jobs THEN q + 1
             ELSE IF 2 * r < total_jobs THEN q
             ELSE IF q % 2 = 0 THEN q ELSE q + 1
    ELSE 0

\* failed_jobs: the jobs that failed at the scheduler or at submit time.
FailedJobs(jobs) ==
    LET Failed(job) ==
            \/ ("currentStatus" \in DOMAIN job /\ job.currentStatus = "FAILED")
            \/ (job.status = "FAILED" /\ job.batchJobId = NoJobId)
        failed == SelectSeq(jobs, Failed)
    IN  [k \in 1..Len(failed) |->
            [jobName |-> failed[k].jobName, batchJobId |-> failed[k].batchJobId,
             error |-> IF "error" \in DOMAIN failed[k] THEN failed[k].error
                       ELSE "Job failed during execution"]]

\* Mutant: the list of failed jobs is returned whole.
FailedJobsShown_untruncated(failed_jobs) ==
    failed_jobs

\* failed_jobs[:10] if len(failed_jobs) > 10 else failed_jobs
FailedJobsShown(failed_jobs) ==
    IF Len(failed_jobs) > 10 THEN SubSeq(failed_jobs, 1, 10) ELSE failed_jobs

\* lambda_handler of get_batch_status.py once batch_data is loaded: the
\* response for batch_id, the describe_jobs calls made on the way and the
\* handler's copy of batch_data['jobs'] as it is when the handler returns.
ReconcileStatus(batch_id, batch_data, scheduler) ==
    LET job_ids == JobIdsOf(batch_data.jobs)
    IN  IF job_ids = <<>>
        THEN [resp |-> [statusCode |-> 200, batchId |-> batch_id,
                        batchName |-> batch_data.batchName, status |-> "FAILED",
                        totalJobs |-> batch_data.totalJobs, submitted |-> 0,
                        failed |-> batch_data.totalJobs, jobs |-> batch_data.jobs],
              describeCalls |-> <<>>, views |-> batch_data.jobs]
        ELSE
        LET chunks == Chunks(job_ids)
            status_map == StatusMap(AllJobStatuses(chunks, scheduler))
            jobs == [i \in 1..Len(batch_data.jobs) |->
                        WithCurrentStatus(batch_data.jobs[i], status_map)]
            status_counts == StatusCounts(jobs)
            total_completed == status_counts["SUCCEEDED"] + status_counts["FAILED"]
            total_jobs == batch_data.totalJobs
            failed_jobs == FailedJobs(jobs)
        IN  [resp |-> [statusCode |-> 200, batchId |-> batch_id,
                       batchName |-> batch_data.batchName,
                       status |-> OverallStatus(status_counts, total_jobs),
                       totalJobs |-> total_jobs,
                       progress |-> Progress(total_completed, total_jobs),
                       statusCounts |-> status_counts,
                       failedJobs |-> FailedJobsShown(failed_jobs),
                       totalFailed |-> Len(failed_jobs)],
             describeCalls |-> chunks, views |-> jobs]

\* Mutant: no handler for NoSuchKey, so a missing record reaches the generic
\* except clause.
lambda_handler_noSuchKeyUncaught(batch_id, bucket, scheduler) ==
    IF batch_id = NoBatch
    THEN [resp |-> error_response(400, <<"Missing batchId in path">>),
          describeCalls |-> <<>>, views |-> <<>>]
    ELSE IF batch_id \notin DOMAIN bucket
    THEN [resp |-> error_response(500, <<"NoSuchKey">>), describeCalls |-> <<>>,
          views |-> <<>>]
    ELSE ReconcileStatus(batch_id, bucket[batch_id], scheduler)

\* lambda_handler of get_batch_status.py: the batchId path parameter is
\* checked, the outcome record is read from the output bucket (NoSuchKey is
\* answered 404) and reconciled with the scheduler's jobs.
lambda_handler(batch_id, bucket, scheduler) ==
    IF batch_id = NoBatch
    THEN [resp |-> error_response(400, <<"Missing batchId in path">>),
          describeCalls |-> <<>>, views |-> <<>>]
    ELSE IF batch_id \notin DOMAIN bucket
    THEN [resp |-> error_response(404, <<"Batch", batch_id, "not found">>),
          describeCalls |-> <<>>, views |-> <<>>]
    ELSE ReconcileStatus(batch_id, bucket[batch_id], scheduler)

\* Mutant: the handler saves the annotated record back under the batch's key.
GetBatchStatus_annotationSaved(batch_id) ==
    /\ statusOut' = lambda_handler(batch_id, s3Output, batchJobs)
    /\ s3Output' =
          IF batch_id \in DOMAIN s3Output
          THEN LET jobs == s3Output[batch_id].jobs
                   status_map == StatusMap(AllJobStatuses(Chunks(JobIdsOf(jobs)),
                                                          batchJobs))
               IN  [s3Output EXCEPT ![batch_id].jobs =
                       [i \in 1..Len(jobs) |-> WithCurrentStatus(jobs[i], status_map)]]
          ELSE s3Output
    /\ UNCHANGED <<clock, received, request, sync, syncResp, s3Source,
                   invocations, exec, batchJobs, nextJobId, inWrites, outWrites>>
    /\ completedSeen' =
          IF /\ "status" \in DOMAIN statusOut'.resp
             /\ statusOut'.resp.status = "COMPLETED"
          THEN completedSeen \cup {batch_id} ELSE completedSeen
    /\ UNCHANGED <<jobOut, nameOut, term, pool>>
    /\ UNCHANGED queries

\* GET /jobs/batch/{batchId}
GetBatchStatus(batch_id) ==
    /\ statusOut' = lambda_handler(batch_id, s3Output, batchJobs)
    /\ UNCHANGED <<clock, received, request, sync, syncResp, s3Source, s3Output,
                   invocations, exec, batchJobs, nextJobId, inWrites, outWrites>>
    /\ completedSeen' =
          IF /\ "status" \in DOMAIN statusOut'.resp
             /\ statusOut'.resp.status = "COMPLETED"
          THEN completedSeen \cup {batch_id} ELSE completedSeen
    /\ UNCHANGED <<jobOut, nameOut, term, pool>>
    /\ UNCHANGED queries

\* ------------------------------------------------------- the scheduler ----
\* No status query answered.
NoStatusOut == [resp |-> NoResponse, describeCalls |-> <<>>, views |-> <<>>]

\* A job moves through the scheduler's lifecycle; a job that has not finished
\* may fail at any point. The response of an earlier status query is a view
\* of the scheduler as it was, and is dropped.
JobAdvance(id) ==
    /\ id \in DOMAIN batchJobs
    /\ \E st \in StatusSet :
          /\ \/ /\ batchJobs[id] = "SUBMITTED" /\ st = "PENDING"
             \/ /\ batchJobs[id] = "PENDING" /\ st = "RUNNABLE"
             \/ /\ batchJobs[id] = "RUNNABLE" /\ st = "STARTING"
             \/ /\ batchJobs[id] = "STARTING" /\ st = "RUNNING"
             \/ /\ batchJobs[id] = "RUNNING" /\ st = "SUCCEEDED"
             \/ /\ batchJobs[id] \notin {"SUCCEEDED", "FAILED"} /\ st = "FAILED"
          /\ batchJobs' = [batchJobs EXCEPT ![id] = st]
    /\ statusOut' = NoStatusOut
    /\ UNCHANGED <<clock, received, request, sync, syncResp, s3Source, s3Output,
                   invocations, exec, nextJobId, inWrites, outWrites>>
    /\ UNCHANGED <<completedSeen, jobOut, nameOut, term, pool>>
    /\ UNCHANGED queries

\* The scheduler drops a finished job: describe_jobs no longer returns it.
JobExpire(id) ==
    /\ id \in DOMAIN batchJobs
    /\ batchJobs[id] \in {"SUCCEEDED", "FAILED"}
    /\ batchJobs' = [j \in DOMAIN batchJobs \ {id} |-> batchJobs[j]]
    /\ statusOut' = NoStatusOut
    /\ UNCHANGED <<clock, received, request, sync, syncResp, s3Source, s3Output,
                   invocations, exec, nextJobId, inWrites, outWrites>>
    /\ UNCHANGED <<completedSeen, jobOut, nameOut, term, pool>>
    /\ UNCHANGED queries

\* --------------------------------------- the status query, in steps ----
\* lambda_handler of get_batch_status.py call by call, for executions that
\* run at the same time: an execution reads the outcome record, asks the
\* scheduler chunk by chunk, and builds its response from what it was told.
Queries == {"q1", "q2"}

QueriesIdle == [q \in Queries |-> [pc |-> "idle"]]

\* s3.get_object and json.loads, job_ids and the early returns: for a
\* missing batchId, a missing record and a record without backend ids the
\* execution ends here, before any call to the scheduler.
QueryRead(q, batch_id) ==
    /\ queries[q].pc = "idle"
    /\ queries' =
          [queries EXCEPT ![q] =
              IF \/ batch_id = NoBatch
                 \/ batch_id \notin DOMAIN s3Output
                 \/ JobIdsOf(s3Output[batch_id].jobs) = <<>>
              THEN [pc |-> "done", out |-> lambda_handler(batch_id, s3Output, batchJobs)]
              ELSE [pc |-> "describe", batchId |-> batch_id,
                    batch_data |-> s3Output[batch_id],
                    chunks |-> Chunks(JobIdsOf(s3Output[batch_id].jobs)),
                    all_job_statuses |-> <<>>]]
    /\ UNCHANGED <<clock, received, request, sync, syncResp, s3Source, s3Output,
                   invocations, exec, batchJobs, nextJobId, inWrites, outWrites,
                   statusOut, completedSeen, jobOut, nameOut, term, pool>>

\* response = batch.describe_jobs(jobs=chunk);
\* all_job_statuses.extend(response['jobs'])
QueryDescribe(q) ==
    /\ queries[q].pc = "describe"
    /\ queries[q].chunks # <<>>
    /\ queries' =
          [queries EXCEPT ![q].chunks = Tail(@),
                          ![q].all_job_statuses =
                              @ \o describe_jobs(Head(queries[q].chunks), batchJobs)]
    /\ UNCHANGED <<clock, received, request, sync, syncResp, s3Source, s3Output,
                   invocations, exec, batchJobs, nextJobId, inWrites, outWrites,
                   statusOut, completedSeen, jobOut, nameOut, term, pool>>

\* Mutant: the execution saves its annotated jobs under the batch's key
\* before it answers.
QueryRespond_annotationSaved(q) ==
    /\ queries[q].pc = "describe"
    /\ queries[q].chunks = <<>>
    /\ queries' =
          [queries EXCEPT ![q] =
              [pc |-> "done",
               out |-> ReconcileStatus(queries[q].batchId, queries[q].batch_data,
                                       StatusMap(queries[q].all_job_statuses))]]
    /\ s3Output' = PutObject(s3Output, queries[q].batchId,
                             [queries[q].batch_data EXCEPT
                                 !.jobs = queries'[q].out.views])
    /\ UNCHANGED <<clock, received, request, sync, syncResp, s3Source,
                   invocations, exec, batchJobs, nextJobId, inWrites, outWrites,
                   statusOut, completedSeen, jobOut, nameOut, term, pool>>

\* The rest of the handler, from status_map to the return: the merge, the
\* tally and the response are computed from the execution's own copy of the
\* record and from the entries the scheduler returned to it, which
\* status_map holds by id.
QueryRespond(q) ==
    /\ queries[q].pc = "describe"
    /\ queries[q].chunks = <<>>
    /\ queries' =
          [queries EXCEPT ![q] =
              [pc |-> "done",
               out |-> ReconcileStatus(queries[q].batchId, queries[q].batch_data,
                                       StatusMap(queries[q].all_job_statuses))]]
    /\ UNCHANGED <<clock, received, request, sync, syncResp, s3Source, s3Output,
                   invocations, exec, batchJobs, nextJobId, inWrites, outWrites,
                   statusOut, completedSeen, jobOut, nameOut, term, pool>>

\* The response has been delivered and the execution's memory is gone.
QueryReturn(q) ==
    /\ queries[q].pc = "done"
    /\ queries' = [queries EXCEPT ![q] = [pc |-> "idle"]]
    /\ UNCHANGED <<clock, received, request, sync, syncResp, s3Source, s3Output,
                   invocations, exec, batchJobs, nextJobId, inWrites, outWrites,
                   statusOut, completedSeen, jobOut, nameOut, term, pool>>

\* ------------------------------------- the job status query (one job) ----
\* GET /jobs/{jobId}, get_job_status.py. A log message and an object key are
\* modelled by what the handler's patterns capture in them.
NoConversation == "None"

ConversationIds == {"conv_a", "conv_b"}

\* conv: the capture of 'Conversation ID:\s*([a-zA-Z0-9_]+)' in the message;
\* path: the capture of 's3://[^/]+/transformations/([a-zA-Z0-9_]+)/'.
Messages ==
    [conv : ConversationIds \cup {NoConversation},
     path : ConversationIds \cup {NoConversation}]

\* The capture of '/transformations/([a-zA-Z0-9_]+)/' in an object key.
Keys == ConversationIds \cup {NoConversation}

\* What logs.get_log_events and s3.list_objects_v2 answer: an error, or the
\* events and the contents.
LogResults ==
    {[error |-> TRUE]}
    \cup {[error |-> FALSE, events |-> e] : e \in SeqsUpTo(Messages, MaxEvents)}

ListResults ==
    {[error |-> TRUE]}
    \cup {[error |-> FALSE, contents |-> c] : c \in SeqsUpTo(Keys, MaxListed)}

\* The container of a described job: whether it has a log stream name and
\* whether its environment has S3_BUCKET.
Containers == [logStreamName : BOOLEAN, s3Bucket : BOOLEAN]

\* The two patterns tried on one message, 'Conversation ID:' first.
MatchMessage(message) ==
    IF message.conv # NoConversation THEN message.conv ELSE message.path

\* Mutant: the loop runs to its end and the last match is returned.
FirstMatch_last(captures) ==
    LET Hit(c) == c # NoConversation
        hits == SelectSeq(captures, Hit)
    IN  IF hits = <<>> THEN NoConversation ELSE hits[Len(hits)]

\* The loop returning at the first match.
FirstMatch(captures) ==
    LET Hit(c) == c # NoConversation
        hits == SelectSeq(captures, Hit)
    IN  IF hits = <<>> THEN NoConversation ELSE hits[1]

\* The object listing of extract_conversation_id; get_output_prefix_from_job
\* always returns a prefix ('transformations/' by default).
ExtractFromS3(container, listing) ==
    IF container.s3Bucket
    THEN LET call == <<[api |-> "list_objects_v2", result |-> listing]>>
         IN  IF listing.error
             THEN [raised |-> TRUE, value |-> NoConversation, calls |-> call]
             ELSE [raised |-> FALSE, value |-> FirstMatch(listing.contents),
                   calls |-> call]
    ELSE [raised |-> FALSE, value |-> NoConversation, calls |-> <<>>]

\* The body of the try block of extract_conversation_id: what it returns or
\* that it raised, and the backend calls it made.
ExtractBody(container, logs_result, listing) ==
    IF container.logStreamName
    THEN LET call == <<[api |-> "get_log_events", result |-> logs_result]>>
         IN  IF logs_result.error
             THEN [raised |-> TRUE, value |-> NoConversation, calls |-> call]
             ELSE LET found == FirstMatch([i \in 1..Len(logs_result.events) |->
                                             MatchMessage(logs_result.events[i])])
                      rest == ExtractFromS3(container, listing)
                  IN  IF found # NoConversation
                      THEN [raised |-> FALSE, value |-> found, calls |-> call]
                      ELSE [rest EXCEPT !.calls = call \o @]
    ELSE ExtractFromS3(container, listing)

\* Mutant: extract_conversation_id without its except clause.
extract_conversation_id_uncaught(container, logs_result, listing) ==
    ExtractBody(container, logs_result, listing)

\* extract_conversation_id: try: ... except Exception: return None
extract_conversation_id(container, logs_result, listing) ==
    LET body == ExtractBody(container, logs_result, listing)
    IN  IF body.raised
        THEN [raised |-> FALSE, value |-> NoConversation, calls |-> body.calls]
        ELSE body

\* lambda_handler of get_job_status.py: the response and the log and object
\* store calls made on the way. An exception reaching the handler's except
\* clause is answered 500.
get_job_status(batch_job_id, scheduler, container, logs_result, listing) ==
    IF batch_job_id = NoJobId
    THEN [resp |-> error_response(400, <<"Missing jobId in path">>), calls |-> <<>>]
    ELSE IF batch_job_id \notin DOMAIN scheduler
    THEN [resp |-> error_response(404, <<"Job not found", batch_job_id>>),
          calls |-> <<>>]
    ELSE
    LET status == scheduler[batch_job_id]
        job_info == [statusCode |-> 200, batchJobId |-> batch_job_id,
                     status |-> status, atxConversationId |-> NoConversation,
                     s3OutputPath |-> <<>>,
                     container |-> [logStreamName |-> container.logStreamName]]
    IN  IF status \in {"SUCCEEDED", "FAILED"}
        THEN LET extracted == extract_conversation_id(container, logs_result, listing)
                 conversation_id == extracted.value
             IN  IF extracted.raised
                 THEN [resp |-> error_response(500, <<"Internal server error">>),
                       calls |-> extracted.calls]
                 ELSE IF conversation_id # NoConversation
                 THEN [resp |-> [job_info EXCEPT
                                   !.atxConversationId = conversation_id,
                                   !.s3OutputPath =
                                       IF container.s3Bucket
                                       THEN <<"s3", conversation_id>> ELSE <<>>],
                       calls |-> extracted.calls]
                 ELSE [resp |-> job_info, calls |-> extracted.calls]
        ELSE [resp |-> job_info, calls |-> <<>>]

\* Whether the handler asks the log backend, and the object store, for the
\* job: a backend that is not asked gives no answer to draw.
AsksLogs(batch_job_id, container) ==
    /\ batch_job_id \in DOMAIN batchJobs
    /\ batchJobs[batch_job_id] \in {"SUCCEEDED", "FAILED"}
    /\ container.logStreamName

AsksListing(batch_job_id, container, logs_result) ==
    /\ batch_job_id \in DOMAIN batchJobs
    /\ batchJobs[batch_job_id] \in {"SUCCEEDED", "FAILED"}
    /\ container.s3Bucket
    /\ container.logStreamName
        => /\ ~logs_result.error
           /\ \A i \in 1..Len(logs_result.events) :
                 MatchMessage(logs_result.events[i]) = NoConversation

NotAsked == [error |-> TRUE]

\* GET /jobs/{jobId}
GetJobStatus(batch_job_id) ==
    /\ \E container \in Containers :
       \E logs_result \in IF AsksLogs(batch_job_id, container)
                          THEN LogResults ELSE {NotAsked} :
       \E listing \in IF AsksListing(batch_job_id, container, logs_result)
                       THEN ListResults ELSE {NotAsked} :
          jobOut' = get_job_status(batch_job_id, batchJobs, container,
                                   logs_result, listing)
    /\ UNCHANGED <<clock, received, request, sync, syncResp, s3Source, s3Output,
                   invocations, exec, batchJobs, nextJobId, inWrites, outWrites,
                   statusOut, completedSeen, nameOut, term, pool>>
    /\ UNCHANGED queries

NoJobOut == [resp |-> NoResponse, calls |-> <<>>]

\* ------------------------------------------------ the derived job name ----
\* A string is the sequence of its characters. These are the strings of the
\* handlers and of the inputs drawn.
\* "/"
Slash ==
    <<"/">>

\* " "
Space ==
    <<" ">>

\* "-"
Dash ==
    <<"-">>

\* "_"
Underscore ==
    <<"_">>

\* ".git"
DotGit ==
    <<".", "g", "i", "t">>

\* ".zip"
DotZip ==
    <<".", "z", "i", "p">>

\* "s3://"
S3Scheme ==
    <<"s", "3", ":", "/", "/">>

\* "-n "
CmdN ==
    <<"-", "n", " ">>

\* "https://github.com/"
GitHub ==
    <<"h", "t", "t", "p", "s", ":", "/", "/", "g", "i", "t", "h", "u", "b", ".", "c", "o", "m", "/">>

\* "https://gitlab.com/"
GitLab ==
    <<"h", "t", "t", "p", "s", ":", "/", "/", "g", "i", "t", "l", "a", "b", ".", "c", "o", "m", "/">>

\* "https://bitbucket.org/"
Bitbucket ==
    <<"h", "t", "t", "p", "s", ":", "/", "/", "b", "i", "t", "b", "u", "c", "k", "e", "t", ".", "o", "r", "g", "/">>

\* "transform"
StrTransform ==
    <<"t", "r", "a", "n", "s", "f", "o", "r", "m">>

\* "job"
StrJob ==
    <<"j", "o", "b">>

\* "atx"
StrAtx ==
    <<"a", "t", "x">>

\* "org/"
StrOrg ==
    <<"o", "r", "g", "/">>

\* "bucket/src/"
StrBucket ==
    <<"b", "u", "c", "k", "e", "t", "/", "s", "r", "c", "/">>

\* "repo1"
StrRepo1 ==
    <<"r", "e", "p", "o", "1">>

\* "my_app"
StrMyApp ==
    <<"m", "y", "_", "a", "p", "p">>

\* "site.github.io"
StrSite ==
    <<"s", "i", "t", "e", ".", "g", "i", "t", "h", "u", "b", ".", "i", "o">>

\* "atx custom def exec"
StrExec ==
    <<"a", "t", "x", " ", "c", "u", "s", "t", "o", "m", " ", "d", "e", "f", " ", "e", "x", "e", "c">>

\* "atx custom def list"
StrList ==
    <<"a", "t", "x", " ", "c", "u", "s", "t", "o", "m", " ", "d", "e", "f", " ", "l", "i", "s", "t">>

\* " -n AWS/java-upgrade"
OptUpgrade ==
    <<" ", "-", "n", " ", "A", "W", "S", "/", "j", "a", "v", "a", "-", "u", "p", "g", "r", "a", "d", "e">>

\* " -n upgrade -t"
OptPlain ==
    <<" ", "-", "n", " ", "u", "p", "g", "r", "a", "d", "e", " ", "-", "t">>

\* " -p a_b -n x/y/z w"
OptTwoWords ==
    <<" ", "-", "p", " ", "a", "_", "b", " ", "-", "n", " ", "x", "/", "y", "/", "z", " ", "w">>

\* " -n "
OptNoValue ==
    <<" ", "-", "n", " ">>

\* Python's str methods, for a separator no proper prefix of which is a
\* suffix of it ('/', ' ', '_', '.git', '.zip', '-n ', 's3://'): its
\* occurrences cannot overlap, so str.split and str.replace take every one.
\* sub occurs in s at position i.
MatchAt(s, sub, i) ==
    /\ i + Len(sub) - 1 <= Len(s)
    /\ \A k \in 1..Len(sub) : s[i + k - 1] = sub[k]

Occurrences(s, sub) ==
    {i \in 1..Len(s) : MatchAt(s, sub, i)}

\* sub in s
Contains(s, sub) ==
    Occurrences(s, sub) # {}

\* s.startswith(prefix), s.endswith(suffix)
StartsWith(s, prefix) ==
    MatchAt(s, prefix, 1)

EndsWith(s, suffix) ==
    /\ Len(s) >= Len(suffix)
    /\ MatchAt(s, suffix, Len(s) - Len(suffix) + 1)

\* The j-th smallest element of a set of positions.
NthOf(positions, j) ==
    CHOOSE p \in positions : Cardinality({q \in positions : q <= p}) = j

\* s.split(sep)
Split(s, sep) ==
    LET occ == Occurrences(s, sep)
        From(j) == IF j = 1 THEN 1 ELSE NthOf(occ, j - 1) + Len(sep)
        To(j) == IF j = Cardinality(occ) + 1 THEN Len(s) ELSE NthOf(occ, j) - 1
    IN  [j \in 1..Cardinality(occ) + 1 |-> SubSeq(s, From(j), To(j))]

\* s.split(): the maximal runs of characters other than the space
SplitWs(s) ==
    LET starts == {i \in 1..Len(s) : s[i] # " " /\ (i = 1 \/ s[i - 1] = " ")}
        ends == {i \in 1..Len(s) : s[i] # " " /\ (i = Len(s) \/ s[i + 1] = " ")}
    IN  [j \in 1..Cardinality(starts) |-> SubSeq(s, NthOf(starts, j), NthOf(ends, j))]

\* glue.join(pieces)
RECURSIVE Join(_, _)
Join(pieces, glue) ==
    IF pieces = <<>> THEN <<>>
    ELSE IF Len(pieces) = 1 THEN pieces[1]
    ELSE pieces[1] \o glue \o Join(Tail(pieces), glue)

\* s.replace(old, new)
Replace(s, old, new) ==
    Join(Split(s, old), new)

\* seq[-1]
Last(seq) ==
    seq[Len(seq)]

\* s[:n]
Truncate(s, n) ==
    SubSeq(s, 1, IF Len(s) < n THEN Len(s) ELSE n)

\* transform_name of both handlers: 'transform', or the last '/'-segment of
\* the first word after the first '-n '; parts[1].split()[0] raises
\* IndexError when no word follows.
TransformName(command) ==
    IF Contains(command, CmdN)
    THEN LET parts == Split(command, CmdN)
             words == SplitWs(parts[2])
         IN  IF words = <<>>
             THEN [raised |-> TRUE, value |-> <<>>]
             ELSE [raised |-> FALSE, value |-> Last(Split(words[1], Slash))]
    ELSE [raised |-> FALSE, value |-> StrTransform]

\* job_name.replace(' ', '-').replace('_', '-')[:128]
Sanitize(job_name) ==
    Truncate(Replace(Replace(job_name, Space, Dash), Underscore, Dash), NameLimit)

\* repo_name of handle_sync_request (trigger_batch_jobs.py)
RepoNameBatch(source) ==
    IF EndsWith(source, DotGit)
    THEN Replace(Last(Split(source, Slash)), DotGit, <<>>)
    ELSE IF Contains(source, S3Scheme)
    THEN Replace(Last(Split(source, Slash)), DotZip, <<>>)
    ELSE Last(Split(source, Slash))

\* The jobName handle_sync_request gives a job that has none; an exception
\* reaches the handler's except clause.
BatchJobName(source, command) ==
    LET transform == TransformName(command)
    IN  IF transform.raised
        THEN [outcome |-> "raised", name |-> <<>>]
        ELSE [outcome |-> "named",
              name |-> Sanitize(RepoNameBatch(source) \o Underscore \o transform.value)]

\* repo_name of lambda_handler (trigger_job.py): from the source, or without
\* one from the words of the command.
RepoNameSingle(source, command) ==
    IF source # <<>>
    THEN IF EndsWith(source, DotGit)
         THEN Replace(Last(Split(source, Slash)), DotGit, <<>>)
         ELSE IF Contains(source, S3Scheme)
         THEN Replace(Last(Split(source, Slash)), DotZip, <<>>)
         ELSE IF Contains(source, Slash) THEN Last(Split(source, Slash))
         ELSE StrJob
    ELSE LET cmd_parts == SplitWs(command)
         IN  IF Len(cmd_parts) >= 3
             THEN Join(SubSeq(cmd_parts, 2, IF Len(cmd_parts) < 4
                                            THEN Len(cmd_parts) ELSE 4), Dash)
             ELSE IF Len(cmd_parts) >= 2 THEN cmd_parts[2]
             ELSE StrJob

\* What lambda_handler of trigger_job.py checks before it derives a name:
\* the command starts with 'atx' (validate_command; the characters drawn are
\* all allowed ones) and the source, if any, has a supported form.
ValidRequest(source, command) ==
    /\ SplitWs(command) # <<>>
    /\ StartsWith(SplitWs(command)[1], StrAtx)
    /\ source # <<>>
        => \/ StartsWith(source, S3Scheme)
           \/ StartsWith(source, GitHub)
           \/ StartsWith(source, GitLab)
           \/ StartsWith(source, Bitbucket)
           \/ EndsWith(source, DotGit)

\* The jobName lambda_handler of trigger_job.py derives when none is given.
SingleJobName(source, command) ==
    LET transform == TransformName(command)
    IN  IF ~ValidRequest(source, command)
        THEN [outcome |-> "rejected", name |-> <<>>]
        ELSE IF transform.raised
        THEN [outcome |-> "raised", name |-> <<>>]
        ELSE [outcome |-> "named",
              name |-> Sanitize(RepoNameSingle(source, command) \o Dash
                                \o transform.value)]

\* The sources and commands drawn: a location, a repository name and an
\* ending; a command and its options.
SourcePrefixes ==
    {GitHub \o StrOrg, S3Scheme \o StrBucket, <<>>}

RepoNames ==
    {StrRepo1, StrMyApp, StrSite, [i \in 1..LongNameLen |-> "a"]}

SourceEndings ==
    {DotGit, DotZip, <<>>, Slash}

Sources ==
    {<<>>} \cup {p \o r \o e : p \in SourcePrefixes, r \in RepoNames, e \in SourceEndings}

Commands ==
    {StrExec \o o : o \in {<<>>, OptUpgrade, OptPlain, OptTwoWords, OptNoValue}}
    \cup {StrAtx, StrList}

NoNameOut == [derived |-> FALSE, source |-> <<>>, command |-> <<>>]

\* A job without jobName is named by both handlers.
DeriveJobName ==
    /\ ~nameOut.derived
    /\ nameOut' = [derived |-> TRUE, source |-> nameOut.source,
                   command |-> nameOut.command,
                   batch |-> BatchJobName(nameOut.source, nameOut.command),
                   single |-> SingleJobName(nameOut.source, nameOut.command)]
    /\ UNCHANGED <<clock, received, request, sync, syncResp, s3Source, s3Output,
                   invocations, exec, batchJobs, nextJobId, inWrites, outWrites,
                   statusOut, completedSeen, jobOut, term, pool>>
    /\ UNCHANGED queries

\* --------------------------------------------------- the terminate call ----
\* DELETE /jobs/{jobId}, terminate_job.py. The handler describes the job,
\* calls terminate_job and describes the job again; the scheduler moves
\* between these calls. term.status is what the first describe reported,
\* term.calls the job ids terminate_job has been called with.
FinalStatuses == {"SUCCEEDED", "FAILED"}

TermIdle ==
    [pc |-> "idle", jobId |-> NoJobId, status |-> "None", resp |-> NoResponse,
     calls |-> <<>>]

\* What a scheduler call does besides answering: raise ClientException or
\* another exception.
CallOutcomes == {"ok", "ClientException", "Exception"}

\* Mutant: the handler does not look at the status the describe reported.
TermReceive_statusUnchecked(job_id, outcome) ==
    /\ term.pc = "idle"
    /\ Len(term.calls) < MaxTermCalls
    /\ term' =
          IF job_id = NoJobId
          THEN [term EXCEPT !.jobId = job_id, !.status = "None",
                            !.resp = error_response(400, <<"Missing jobId in path parameters">>)]
          ELSE IF outcome = "ClientException"
          THEN [term EXCEPT !.jobId = job_id, !.status = outcome,
                            !.resp = error_response(404, <<"Job", job_id, "not found">>)]
          ELSE IF outcome = "Exception"
          THEN [term EXCEPT !.jobId = job_id, !.status = outcome,
                            !.resp = error_response(500, <<"Internal server error">>)]
          ELSE IF job_id \notin DOMAIN batchJobs
          THEN [term EXCEPT !.jobId = job_id, !.status = "NotFound",
                            !.resp = error_response(404, <<"Job", job_id, "not found">>)]
          ELSE [term EXCEPT !.pc = "terminate", !.jobId = job_id,
                            !.status = batchJobs[job_id], !.resp = NoResponse]
    /\ UNCHANGED <<clock, received, request, sync, syncResp, s3Source, s3Output,
                   invocations, exec, batchJobs, nextJobId, inWrites, outWrites,
                   statusOut, completedSeen, jobOut, nameOut, pool>>
    /\ UNCHANGED queries

\* Lines 21-95: the jobId is checked and the job described; a job that is
\* not returned, or that has finished, ends the request.
TermReceive(job_id, outcome) ==
    /\ term.pc = "idle"
    /\ Len(term.calls) < MaxTermCalls
    /\ term' =
          IF job_id = NoJobId
          THEN [term EXCEPT !.jobId = job_id, !.status = "None",
                            !.resp = error_response(400, <<"Missing jobId in path parameters">>)]
          ELSE IF outcome = "ClientException"
          THEN [term EXCEPT !.jobId = job_id, !.status = outcome,
                            !.resp = error_response(404, <<"Job", job_id, "not found">>)]
          ELSE IF outcome = "Exception"
          THEN [term EXCEPT !.jobId = job_id, !.status = outcome,
                            !.resp = error_response(500, <<"Internal server error">>)]
          ELSE IF job_id \notin DOMAIN batchJobs
          THEN [term EXCEPT !.jobId = job_id, !.status = "NotFound",
                            !.resp = error_response(404, <<"Job", job_id, "not found">>)]
          ELSE IF batchJobs[job_id] \in FinalStatuses
          THEN [term EXCEPT !.jobId = job_id, !.status = batchJobs[job_id],
                            !.resp = [statusCode |-> 400,
                                      error |-> <<"Job", job_id, "is already in",
                                                  batchJobs[job_id],
                                                  "state and cannot be terminated">>,
                                      jobId |-> job_id,
                                      status |-> batchJobs[job_id]]]
          ELSE [term EXCEPT !.pc = "terminate", !.jobId = job_id,
                            !.status = batchJobs[job_id], !.resp = NoResponse]
    /\ UNCHANGED <<clock, received, request, sync, syncResp, s3Source, s3Output,
                   invocations, exec, batchJobs, nextJobId, inWrites, outWrites,
                   statusOut, completedSeen, jobOut, nameOut, pool>>
    /\ UNCHANGED queries

\* Lines 97-101 and the except clauses of lines 123-148: terminate_job is
\* called. The scheduler fails the job later, if it has not finished by then.
TermTerminate(outcome) ==
    /\ term.pc = "terminate"
    /\ term' =
          IF outcome = "ClientException"
          THEN [term EXCEPT !.pc = "idle", !.calls = Append(@, term.jobId),
                            !.resp = error_response(400, <<"Failed to terminate job">>)]
          ELSE IF outcome = "Exception"
          THEN [term EXCEPT !.pc = "idle", !.calls = Append(@, term.jobId),
                            !.resp = error_response(500, <<"Internal server error">>)]
          ELSE [term EXCEPT !.pc = "describe", !.calls = Append(@, term.jobId)]
    /\ UNCHANGED <<clock, received, request, sync, syncResp, s3Source, s3Output,
                   invocations, exec, batchJobs, nextJobId, inWrites, outWrites,
                   statusOut, completedSeen, jobOut, nameOut, pool>>
    /\ UNCHANGED queries

\* Lines 103-121: the job is described again and the request answered; a
\* job that is no longer returned makes ['jobs'][0] raise IndexError.
TermDescribeAgain(outcome) ==
    /\ term.pc = "describe"
    /\ term' =
          IF outcome = "ClientException"
          THEN [term EXCEPT !.pc = "idle",
                            !.resp = error_response(400, <<"Failed to terminate job">>)]
          ELSE IF outcome = "Exception" \/ term.jobId \notin DOMAIN batchJobs
          THEN [term EXCEPT !.pc = "idle",
                            !.resp = error_response(500, <<"Internal server error">>)]
          ELSE [term EXCEPT !.pc = "idle",
                            !.resp = [statusCode |-> 200, jobId |-> term.jobId,
                                      previousStatus |-> term.status,
                                      currentStatus |-> batchJobs[term.jobId]]]
    /\ UNCHANGED <<clock, received, request, sync, syncResp, s3Source, s3Output,
                   invocations, exec, batchJobs, nextJobId, inWrites, outWrites,
                   statusOut, completedSeen, jobOut, nameOut, pool>>
    /\ UNCHANGED queries

\* ------------------------------------------------------ the worker pool ----
\* The submission phase of handle_async_processing, thread by thread. The
\* main thread hands the jobs to the executor one by one (pc "loop"), sleeps
\* after every 50th ("sleep"), waits for the futures ("collect") and writes
\* the outcome record ("put"). The executor queues the calls and its workers
\* take them in order, so the jobs are counted: issued of the n jobs have
\* been handed over, started of them have been taken by a worker and done
\* of them have returned from submit_single_job. Two more counters record
\* the run so far: pauses is the number of sleeps that have returned, and
\* window the number of calls workers have taken since the last sleep
\* began (since the beginning, before the first).
PoolIdle ==
    [pc |-> "idle", n |-> 0, issued |-> 0, started |-> 0, done |-> 0,
     pauses |-> 0, window |-> 0]

\* Mutant: the main thread hands the jobs over without ever sleeping.
PoolIssue_noPause ==
    /\ pool.pc = "loop"
    /\ pool.issued < pool.n
    /\ pool' = [pool EXCEPT !.issued = @ + 1,
                            !.pc = IF pool.issued + 1 = pool.n THEN "collect"
                                   ELSE "loop"]
    /\ UNCHANGED <<clock, received, request, sync, syncResp, s3Source, s3Output,
                   invocations, exec, batchJobs, nextJobId, inWrites, outWrites,
                   statusOut, completedSeen, jobOut, nameOut, term>>
    /\ UNCHANGED queries

\* futures.append(executor.submit(submit_single_job, job)), and the test
\* (i + 1) % 50 == 0 after it.
PoolIssue ==
    /\ pool.pc = "loop"
    /\ pool.issued < pool.n
    /\ pool' = [pool EXCEPT !.issued = @ + 1,
                            !.pc = IF (pool.issued + 1) % PauseEvery = 0 THEN "sleep"
                                   ELSE IF pool.issued + 1 = pool.n THEN "collect"
                                   ELSE "loop",
                            !.window = IF (pool.issued + 1) % PauseEvery = 0 THEN 0
                                       ELSE @]
    /\ UNCHANGED <<clock, received, request, sync, syncResp, s3Source, s3Output,
                   invocations, exec, batchJobs, nextJobId, inWrites, outWrites,
                   statusOut, completedSeen, jobOut, nameOut, term>>
    /\ UNCHANGED queries

\* time.sleep(1) returns.
PoolWake ==
    /\ pool.pc = "sleep"
    /\ pool' = [pool EXCEPT !.pc = IF pool.issued = pool.n THEN "collect" ELSE "loop",
                            !.pauses = @ + 1]
    /\ UNCHANGED <<clock, received, request, sync, syncResp, s3Source, s3Output,
                   invocations, exec, batchJobs, nextJobId, inWrites, outWrites,
                   statusOut, completedSeen, jobOut, nameOut, term>>
    /\ UNCHANGED queries

\* Mutant: a thread is started for every queued call.
PoolStart_unbounded ==
    /\ pool.started < pool.issued
    /\ pool' = [pool EXCEPT !.started = @ + 1, !.window = @ + 1]
    /\ UNCHANGED <<clock, received, request, sync, syncResp, s3Source, s3Output,
                   invocations, exec, batchJobs, nextJobId, inWrites, outWrites,
                   statusOut, completedSeen, jobOut, nameOut, term>>
    /\ UNCHANGED queries

\* A worker of the pool takes the next queued call and enters
\* submit_single_job; the pool has at most max_workers threads.
PoolStart ==
    /\ pool.started < pool.issued
    /\ pool.started - pool.done < MaxWorkers
    /\ pool' = [pool EXCEPT !.started = @ + 1, !.window = @ + 1]
    /\ UNCHANGED <<clock, received, request, sync, syncResp, s3Source, s3Output,
                   invocations, exec, batchJobs, nextJobId, inWrites, outWrites,
                   statusOut, completedSeen, jobOut, nameOut, term>>
    /\ UNCHANGED queries

\* A submit_single_job call returns its outcome (batch.submit_job answered
\* or raised) and its future is done.
PoolFinish ==
    /\ pool.done < pool.started
    /\ pool' = [pool EXCEPT !.done = @ + 1]
    /\ UNCHANGED <<clock, received, request, sync, syncResp, s3Source, s3Output,
                   invocations, exec, batchJobs, nextJobId, inWrites, outWrites,
                   statusOut, completedSeen, jobOut, nameOut, term>>
    /\ UNCHANGED queries

\* Mutant: the main thread leaves the pool without waiting for the futures.
PoolCollect_noWait ==
    /\ pool.pc = "collect"
    /\ pool' = [pool EXCEPT !.pc = "put"]
    /\ UNCHANGED <<clock, received, request, sync, syncResp, s3Source, s3Output,
                   invocations, exec, batchJobs, nextJobId, inWrites, outWrites,
                   statusOut, completedSeen, jobOut, nameOut, term>>
    /\ UNCHANGED queries

\* for future in as_completed(futures): results.append(future.result()),
\* and the end of the with block: the loop ends when every future is done.
PoolCollect ==
    /\ pool.pc = "collect"
    /\ pool.done = pool.n
    /\ pool' = [pool EXCEPT !.pc = "put"]
    /\ UNCHANGED <<clock, received, request, sync, syncResp, s3Source, s3Output,
                   invocations, exec, batchJobs, nextJobId, inWrites, outWrites,
                   statusOut, completedSeen, jobOut, nameOut, term>>
    /\ UNCHANGED queries

\* s3.put_object of the outcome record: it succeeds, or raises and the
\* handler re-raises.
PoolPutObject ==
    /\ pool.pc = "put"
    /\ \E ok \in BOOLEAN :
          pool' = [pool EXCEPT !.pc = IF ok THEN "written" ELSE "raised"]
    /\ UNCHANGED <<clock, received, request, sync, syncResp, s3Source, s3Output,
                   invocations, exec, batchJobs, nextJobId, inWrites, outWrites,
                   statusOut, completedSeen, jobOut, nameOut, term>>
    /\ UNCHANGED queries

\* --------------------------------------------- the other handlers, idle ----
\* ------------------------------------------------------ specifications ----
EmptyBucket == [k \in {} |-> 0]

\* SpecAccept: bulk requests arrive at an empty system.
InitAccept ==
    /\ clock = 1
    /\ received = 0
    /\ request = NoRequest
    /\ sync = SyncIdle
    /\ syncResp = NoResponse
    /\ s3Source = EmptyBucket
    /\ s3Output = EmptyBucket
    /\ invocations = <<>>
    /\ exec = ExecIdle
    /\ batchJobs = [id \in {} |-> "SUBMITTED"]
    /\ nextJobId = 1
    /\ inWrites = [b \in BatchIds |-> 0]
    /\ outWrites = [b \in BatchIds |-> 0]
    /\ statusOut = NoStatusOut
    /\ completedSeen = {}
    /\ jobOut = NoJobOut
    /\ nameOut = NoNameOut
    /\ term = TermIdle
    /\ queries = QueriesIdle
    /\ pool = PoolIdle

NextAccept ==
    \/ \E body \in Bodies : SyncReceive(body)
    \/ SyncPutObject
    \/ SyncInvoke
    \/ Tick

SpecAccept == InitAccept /\ [][NextAccept]_vars

\* The state handle_sync_request leaves when it accepts, in second 1 and on an
\* empty system, a request of valid jobs.
Accepted(jobs) ==
    /\ clock = 1
    /\ received = 1
    /\ request = [kind |-> "json", hasJobs |-> TRUE,
                  jobs |-> [i \in 1..Len(jobs) |->
                              [source |-> jobs[i].source, command |-> jobs[i].command]]]
    /\ sync = SyncIdle
    /\ syncResp = [statusCode |-> 200, batchId |-> 1,
                   status |-> "PROCESSING", totalJobs |-> Len(jobs)]
    /\ s3Source = PutObject(EmptyBucket, 1, [batchName |-> "batch", jobs |-> jobs])
    /\ inWrites = [b \in BatchIds |-> IF b = 1 THEN 1 ELSE 0]

ValidJobs(n) ==
    NamedJobs([i \in 1..n |-> [source |-> TRUE, command |-> TRUE]])

\* Spec: one batch has been accepted; its invocation is delivered, the
\* submission phase runs and status queries arrive.
Init ==
    \E n \in 1..MaxJobs :
       /\ Accepted(ValidJobs(n))
       /\ invocations = <<[batchId |-> 1, batchName |-> "batch", totalJobs |-> n,
                           jobs |-> ValidJobs(n), deliveries |-> 0]>>
       /\ s3Output = EmptyBucket
       /\ exec = ExecIdle
       /\ batchJobs = [id \in {} |-> "SUBMITTED"]
       /\ nextJobId = 1
       /\ outWrites = [b \in BatchIds |-> 0]
       /\ statusOut = NoStatusOut
       /\ completedSeen = {}
       /\ jobOut = NoJobOut
       /\ nameOut = NoNameOut
       /\ term = TermIdle
       /\ queries = QueriesIdle
       /\ pool = PoolIdle

Next ==
    \/ \E k \in 1..Len(invocations) : AsyncStart(k)
    \/ \E i \in 1..MaxJobs : SubmitJob(i)
    \/ AsyncPutObject
    \/ \E b \in BatchIds \cup {NoBatch} : GetBatchStatus(b)

Spec == Init /\ [][Next]_vars

\* The outcomes a finished submission phase has collected for jobs 1..Len(oks)
\* completing in order, job i accepted by the scheduler iff oks[i]; first_id is
\* the id the scheduler gives the first accepted job.
ResultsFor(oks, name, first_id) ==
    [i \in 1..Len(oks) |->
        submit_single_job([jobName |-> name + i - 1],
                          IF oks[i]
                          THEN first_id - 1 + Cardinality({k \in 1..i : oks[k]})
                          ELSE NoJobId)]

\* SpecStatus: one batch has been accepted and its submission phase has
\* written the outcome record; every accepted job is known to the scheduler.
InitStatus ==
    \E oks \in SeqsUpTo(BOOLEAN, MaxStatusJobs) \ {<<>>} :
       LET jobs == ValidJobs(Len(oks))
           results == ResultsFor(oks, 1, 1)
           ids == {results[i].batchJobId : i \in 1..Len(results)} \ {NoJobId}
       IN  /\ Accepted(jobs)
           /\ invocations = <<[batchId |-> 1, batchName |-> "batch",
                               totalJobs |-> Len(jobs), jobs |-> jobs,
                               deliveries |-> 1]>>
           /\ s3Output = PutObject(EmptyBucket, 1, OutputData(1, "batch", jobs, results))
           /\ exec = ExecIdle
           /\ batchJobs = [id \in ids |-> "SUBMITTED"]
           /\ nextJobId = Cardinality(ids) + 1
           /\ outWrites = [b \in BatchIds |-> IF b = 1 THEN 1 ELSE 0]
           /\ statusOut = NoStatusOut
           /\ completedSeen = {}
           /\ jobOut = NoJobOut
           /\ nameOut = NoNameOut
           /\ term = TermIdle
           /\ queries = QueriesIdle
           /\ pool = PoolIdle

NextStatus ==
    \/ \E id \in 1..MaxStatusJobs : JobAdvance(id)
    \/ \E id \in 1..MaxStatusJobs : JobExpire(id)
    \/ \E b \in BatchIds \cup {NoBatch} : GetBatchStatus(b)

SpecStatus == InitStatus /\ [][NextStatus]_vars

\* The state a finished submission phase leaves, in second 1 and on an empty
\* system, for a batch of Len(oks) jobs of which job i was accepted by the
\* scheduler iff oks[i]; every accepted job is in scheduler status st.
Submitted(oks, st) ==
    LET jobs == ValidJobs(Len(oks))
        results == ResultsFor(oks, 1, 1)
        ids == 1..Cardinality({i \in 1..Len(oks) : oks[i]})
    IN  /\ Accepted(jobs)
        /\ invocations = <<[batchId |-> 1, batchName |-> "batch",
                            totalJobs |-> Len(jobs), jobs |-> jobs,
                            deliveries |-> 1]>>
        /\ s3Output = PutObject(EmptyBucket, 1, OutputData(1, "batch", jobs, results))
        /\ exec = ExecIdle
        /\ batchJobs = [id \in ids |-> st[id]]
        /\ nextJobId = Cardinality(ids) + 1
        /\ outWrites = [b \in BatchIds |-> IF b = 1 THEN 1 ELSE 0]
        /\ statusOut = NoStatusOut
        /\ completedSeen = {}
        /\ jobOut = NoJobOut
        /\ nameOut = NoNameOut
        /\ term = TermIdle
        /\ queries = QueriesIdle
        /\ pool = PoolIdle

\* SpecChunk: the outcome record of a large batch has been written; the
\* first job may have failed at submission, the others are running.
InitChunk ==
    \E n \in 1..MaxChunkJobs, first_ok \in BOOLEAN :
       Submitted([i \in 1..n |-> first_ok \/ i > 1], [id \in 1..n |-> "RUNNING"])

NextChunk ==
    \E b \in BatchIds \cup {NoBatch} : GetBatchStatus(b)

SpecChunk == InitChunk /\ [][NextChunk]_vars

\* SpecFailed: the outcome record of a batch has been written and its jobs
\* have finished. The jobs at the positions in bad have failed: at submission
\* when the position has parity k, at the scheduler otherwise.
InitFailed ==
    \E n \in 1..MaxFailedJobs, k \in 0..1 : \E bad \in SUBSET (1..n) :
       LET oks == [i \in 1..n |-> ~(i \in bad /\ i % 2 = k)]
           IdAt(i) == Cardinality({j \in 1..i : oks[j]})
           ids == 1..IdAt(n)
           PositionOf(id) == CHOOSE i \in 1..n : oks[i] /\ IdAt(i) = id
       IN  Submitted(oks, [id \in ids |-> IF PositionOf(id) \in bad THEN "FAILED"
                                           ELSE "SUCCEEDED"])

NextFailed ==
    \E b \in BatchIds \cup {NoBatch} : GetBatchStatus(b)

SpecFailed == InitFailed /\ [][NextFailed]_vars

\* SpecQueries: the outcome record of a batch has been written, its jobs
\* move through the scheduler's lifecycle and status queries for it run at
\* the same time.
InitQueries ==
    \E oks \in SeqsUpTo(BOOLEAN, MaxQueryJobs) \ {<<>>} :
       Submitted(oks, [id \in 1..Cardinality({i \in 1..Len(oks) : oks[i]}) |->
                          "SUBMITTED"])

NextQueries ==
    \/ \E id \in 1..MaxQueryJobs : JobAdvance(id)
    \/ \E id \in 1..MaxQueryJobs : JobExpire(id)
    \/ \E q \in Queries, b \in BatchIds \cup {NoBatch} : QueryRead(q, b)
    \/ \E q \in Queries : QueryDescribe(q)
    \/ \E q \in Queries : QueryRespond(q)
    \/ \E q \in Queries : QueryReturn(q)

SpecQueries == InitQueries /\ [][NextQueries]_vars

\* SpecJob: the scheduler knows one job, in some status, or has dropped it;
\* job status queries arrive.
InitJob ==
    /\ clock = 1
    /\ received = 0
    /\ request = NoRequest
    /\ sync = SyncIdle
    /\ syncResp = NoResponse
    /\ s3Source = EmptyBucket
    /\ s3Output = EmptyBucket
    /\ invocations = <<>>
    /\ exec = ExecIdle
    /\ \E jobs \in {[id \in {} |-> "SUBMITTED"]}
                   \cup {[id \in {1} |-> st] : st \in StatusSet} :
          batchJobs = jobs
    /\ nextJobId = 2
    /\ inWrites = [b \in BatchIds |-> 0]
    /\ outWrites = [b \in BatchIds |-> 0]
    /\ statusOut = NoStatusOut
    /\ completedSeen = {}
    /\ jobOut = NoJobOut
    /\ nameOut = NoNameOut
    /\ term = TermIdle
    /\ queries = QueriesIdle
    /\ pool = PoolIdle

NextJob ==
    \E id \in {NoJobId, 1} : GetJobStatus(id)

SpecJob == InitJob /\ [][NextJob]_vars

\* SpecName: a job without jobName arrives with some source and command.
InitName ==
    /\ clock = 1
    /\ received = 0
    /\ request = NoRequest
    /\ sync = SyncIdle
    /\ syncResp = NoResponse
    /\ s3Source = EmptyBucket
    /\ s3Output = EmptyBucket
    /\ invocations = <<>>
    /\ exec = ExecIdle
    /\ batchJobs = [id \in {} |-> "SUBMITTED"]
    /\ nextJobId = 1
    /\ inWrites = [b \in BatchIds |-> 0]
    /\ outWrites = [b \in BatchIds |-> 0]
    /\ statusOut = NoStatusOut
    /\ completedSeen = {}
    /\ jobOut = NoJobOut
    /\ \E source \in Sources, command \in Commands :
          nameOut = [derived |-> FALSE, source |-> source, command |-> command]
    /\ term = TermIdle
    /\ queries = QueriesIdle
    /\ pool = PoolIdle

NextName ==
    DeriveJobName

SpecName == InitName /\ [][NextName]_vars

\* SpecTerminate: the scheduler has accepted jobs; they run, finish and are
\* dropped while terminate requests arrive.
InitTerminate ==
    /\ clock = 1
    /\ received = 0
    /\ request = NoRequest
    /\ sync = SyncIdle
    /\ syncResp = NoResponse
    /\ s3Source = EmptyBucket
    /\ s3Output = EmptyBucket
    /\ invocations = <<>>
    /\ exec = ExecIdle
    /\ batchJobs = [id \in 1..MaxTermJobs |-> "SUBMITTED"]
    /\ nextJobId = MaxTermJobs + 1
    /\ inWrites = [b \in BatchIds |-> 0]
    /\ outWrites = [b \in BatchIds |-> 0]
    /\ statusOut = NoStatusOut
    /\ completedSeen = {}
    /\ jobOut = NoJobOut
    /\ nameOut = NoNameOut
    /\ term = TermIdle
    /\ queries = QueriesIdle
    /\ pool = PoolIdle

NextTerminate ==
    \/ \E id \in 1..MaxTermJobs : JobAdvance(id)
    \/ \E id \in 1..MaxTermJobs : JobExpire(id)
    \/ \E id \in {NoJobId} \cup 1..MaxTermJobs, outcome \in CallOutcomes :
          TermReceive(id, outcome)
    \/ \E outcome \in CallOutcomes : TermTerminate(outcome)
    \/ \E outcome \in CallOutcomes : TermDescribeAgain(outcome)

SpecTerminate == InitTerminate /\ [][NextTerminate]_vars

\* SpecPool: the asynchronous invocation of a batch of n jobs has reached
\* the submission phase.
InitPool ==
    /\ clock = 1
    /\ received = 0
    /\ request = NoRequest
    /\ sync = SyncIdle
    /\ syncResp = NoResponse
    /\ s3Source = EmptyBucket
    /\ s3Output = EmptyBucket
    /\ invocations = <<>>
    /\ exec = ExecIdle
    /\ batchJobs = [id \in {} |-> "SUBMITTED"]
    /\ nextJobId = 1
    /\ inWrites = [b \in BatchIds |-> 0]
    /\ outWrites = [b \in BatchIds |-> 0]
    /\ statusOut = NoStatusOut
    /\ completedSeen = {}
    /\ jobOut = NoJobOut
    /\ nameOut = NoNameOut
    /\ term = TermIdle
    /\ queries = QueriesIdle
    /\ \E n \in 1..MaxPoolJobs :
          pool = [pc |-> "loop", n |-> n, issued |-> 0, started |-> 0, done |-> 0,
                  pauses |-> 0, window |-> 0]

NextPool ==
    \/ PoolIssue
    \/ PoolWake
    \/ PoolStart
    \/ PoolFinish
    \/ PoolCollect
    \/ PoolPutObject

SpecPool == InitPool /\ [][NextPool]_vars

\* SpecPause: the submission phase of a batch large enough for the main
\* thread to sleep twice, or of one that ends on its only sleep.
InitPause ==
    /\ clock = 1
    /\ received = 0
    /\ request = NoRequest
    /\ sync = SyncIdle
    /\ syncResp = NoResponse
    /\ s3Source = EmptyBucket
    /\ s3Output = EmptyBucket
    /\ invocations = <<>>
    /\ exec = ExecIdle
    /\ batchJobs = [id \in {} |-> "SUBMITTED"]
    /\ nextJobId = 1
    /\ inWrites = [b \in BatchIds |-> 0]
    /\ outWrites = [b \in BatchIds |-> 0]
    /\ statusOut = NoStatusOut
    /\ completedSeen = {}
    /\ jobOut = NoJobOut
    /\ nameOut = NoNameOut
    /\ term = TermIdle
    /\ queries = QueriesIdle
    /\ \E n \in {PauseEvery, MaxPauseJobs} :
          pool = [pc |-> "loop", n |-> n, issued |-> 0, started |-> 0, done |-> 0,
                  pauses |-> 0, window |-> 0]

NextPause ==
    \/ PoolIssue
    \/ PoolWake
    \/ PoolStart
    \/ PoolFinish
    \/ PoolCollect
    \/ PoolPutObject

SpecPause == InitPause /\ [][NextPause]_vars

\* -------------------------------------------------------------- claims ----

\* C1: every outcome record the submission phase has written satisfies
\* submitted + failed = totalJobs, whichever submit calls failed.
C1_SubmittedPlusFailed ==
    \A b \in DOMAIN s3Output :
        s3Output[b].submitted + s3Output[b].failed = s3Output[b].totalJobs

\* A record with both accepted and rejected jobs has been written.
C1_Witness ==
    \E b \in DOMAIN s3Output : s3Output[b].submitted >= 1 /\ s3Output[b].failed >= 1

\* An outcome record holds, for every job of the batch, exactly one outcome:
\* SUBMITTED with a backend id, or FAILED with no id and the error text.
OneOutcomePerJob(record) ==
    /\ Len(record.jobs) = record.totalJobs
    /\ \A name \in 1..record.totalJobs :
          /\ Cardinality({r \in 1..Len(record.jobs) : record.jobs[r].jobName = name}) = 1
          /\ \A r \in 1..Len(record.jobs) :
                record.jobs[r].jobName = name =>
                   \/ /\ record.jobs[r].status = "SUBMITTED"
                      /\ record.jobs[r].batchJobId # NoJobId
                   \/ /\ record.jobs[r].status = "FAILED"
                      /\ record.jobs[r].batchJobId = NoJobId
                      /\ "error" \in DOMAIN record.jobs[r]

\* C2: a failed submit call neither aborts nor blocks the other jobs: a step
\* of the pool adds one outcome and leaves the execution in the pool with the
\* earlier outcomes kept, and every record written holds exactly one outcome
\* per job of the batch.
C2_FailureIsolated ==
    /\ [](\A b \in DOMAIN s3Output : OneOutcomePerJob(s3Output[b]))
    /\ [][(exec.pc = "submit" /\ Unfinished # {} /\ exec' # exec)
            => /\ exec'.pc = "submit"
               /\ Len(exec'.results) = Len(exec.results) + 1
               /\ SubSeq(exec'.results, 1, Len(exec.results)) = exec.results]_vars

\* A record in which a job that failed at submit time is followed by a job
\* the scheduler accepted.
C2_Witness ==
    \E b \in DOMAIN s3Output :
        \E r1, r2 \in 1..Len(s3Output[b].jobs) :
            /\ r1 < r2
            /\ s3Output[b].jobs[r1].status = "FAILED"
            /\ s3Output[b].jobs[r2].status = "SUBMITTED"

\* C3: the hand-off is issued and the 200 response is given only by the step
\* that follows a successful write of this request's intent record; a request
\* whose intent write fails ends with 500 and no hand-off.
C3_IntentBeforeHandOff ==
    [][/\ (invocations' # invocations
           \/ (syncResp'.statusCode = 200 /\ syncResp.statusCode # 200))
          => /\ sync.pc = "invoke"
             /\ sync.batchId \in DOMAIN s3Source
             /\ s3Source[sync.batchId].jobs = sync.jobs
             /\ inWrites[sync.batchId] >= 1
       /\ (sync.pc = "put_object" /\ sync' # sync /\ inWrites' = inWrites)
          => /\ sync'.pc = "idle"
             /\ invocations' = invocations
             /\ syncResp'.statusCode = 500]_vars

\* A request has been accepted: intent written, hand-off issued, 200 given.
C3_Witness ==
    /\ syncResp.statusCode = 200
    /\ syncResp.batchId \in DOMAIN s3Source
    /\ \E k \in 1..Len(invocations) : invocations[k].batchId = syncResp.batchId

\* C4: for each batchId the outcome record is written at most once, also when
\* the invocation is delivered more than once.
C4_WrittenOnce ==
    \A b \in BatchIds : outWrites[b] <= 1

\* C5: the step that rejects a bulk request with a 4xx response writes to no
\* bucket, issues no hand-off, calls the scheduler for nothing and ends the
\* request.
C5_RejectedTouchesNothing ==
    [][(received' # received /\ syncResp'.statusCode \in 400..499)
         => /\ UNCHANGED <<s3Source, s3Output, inWrites, outWrites,
                           invocations, batchJobs, nextJobId, exec>>
            /\ sync'.pc = "idle"]_vars

\* A request was rejected for a job missing a field and nothing was stored.
C5_Witness ==
    /\ syncResp.statusCode = 400
    /\ Len(syncResp.error) = 3
    /\ DOMAIN s3Source = {}
    /\ invocations = <<>>

\* The response rejects the request for one of its jobs.
IsJobError(resp) ==
    resp.statusCode = 400 /\ resp.error[1] = "Job"

\* The jobs (1-based) of the last request that lack a field.
Lacking(field) ==
    {i \in 1..Len(request.jobs) : ~request.jobs[i][field]}

C7_NoOutcomeIsNotFound ==
    [][\A b \in BatchIds :
          (b \notin DOMAIN s3Output /\ GetBatchStatus(b))
          => /\ statusOut'.resp.statusCode = 404
             /\ statusOut'.resp.error[2] = b
             /\ statusOut'.describeCalls = <<>>]_vars

\* 404 was answered for the accepted batch, whose intent record exists, whose
\* invocation was delivered and whose execution ended without a record.
C7_Witness ==
    /\ statusOut.resp.statusCode = 404
    /\ statusOut.resp.error[2] \in DOMAIN s3Source
    /\ statusOut.resp.error[2] \notin DOMAIN s3Output
    /\ \E k \in 1..Len(invocations) :
          /\ invocations[k].batchId = statusOut.resp.error[2]
          /\ invocations[k].deliveries >= 1
    /\ exec.pc = "idle"

\* The outcome record of batch b has no job with a backend id.
NoneSubmitted(b) ==
    /\ b \in DOMAIN s3Output
    /\ \A r \in 1..Len(s3Output[b].jobs) : s3Output[b].jobs[r].batchJobId = NoJobId

\* C8: for a batch whose record has no job with a backend id, the status
\* query answers FAILED with progress 0 and makes no describe call.
C8_NoneSubmittedIsFailed ==
    [][\A b \in BatchIds :
          (GetBatchStatus(b) /\ NoneSubmitted(b))
          => /\ statusOut'.resp.status = "FAILED"
             /\ statusOut'.describeCalls = <<>>
             /\ "progress" \in DOMAIN statusOut'.resp
             /\ statusOut'.resp.progress = 0]_vars

\* The overall state the priority rule gives for counts and a job total.
PriorityState(counts, total) ==
    CASE counts["SUCCEEDED"] + counts["FAILED"] = total -> "COMPLETED"
      [] counts["SUCCEEDED"] + counts["FAILED"] # total
         /\ (counts["RUNNING"] > 0 \/ counts["STARTING"] > 0) -> "RUNNING"
      [] counts["SUCCEEDED"] + counts["FAILED"] # total
         /\ counts["RUNNING"] = 0 /\ counts["STARTING"] = 0
         /\ (counts["RUNNABLE"] > 0 \/ counts["PENDING"] > 0) -> "PENDING"
      [] OTHER -> "PROCESSING"

\* The status a job of record b is tallied under, given the scheduler's jobs.
StatusNow(job) ==
    IF job.batchJobId = NoJobId THEN job.status
    ELSE IF job.batchJobId \in DOMAIN batchJobs THEN batchJobs[job.batchJobId]
    ELSE "UNKNOWN"

\* The number of jobs of record b tallied under status st.
TallyNow(b, st) ==
    Cardinality({r \in 1..Len(s3Output[b].jobs) : StatusNow(s3Output[b].jobs[r]) = st})

\* C9: when at least one job has a backend id, the overall state of the
\* response follows the priority rule over the tallied counts, and the counts
\* are the tallies of the jobs' statuses at the time of the query.
C9_OverallByPriority ==
    [][\A b \in BatchIds :
          (GetBatchStatus(b) /\ b \in DOMAIN s3Output /\ ~NoneSubmitted(b))
          => /\ \A st \in StatusSet : statusOut'.resp.statusCounts[st] = TallyNow(b, st)
             /\ statusOut'.resp.status =
                  PriorityState([st \in StatusSet |-> TallyNow(b, st)],
                                s3Output[b].totalJobs)]_vars

\* A response RUNNING although a job is PENDING or RUNNABLE, one PENDING and
\* one PROCESSING are all decided by priority; this is the first.
C9_Witness ==
    /\ "statusCounts" \in DOMAIN statusOut.resp
    /\ statusOut.resp.status = "RUNNING"
    /\ statusOut.resp.statusCounts["STARTING"] > 0
    /\ statusOut.resp.statusCounts["RUNNABLE"] > 0
    /\ statusOut.resp.statusCounts["FAILED"] > 0

\* Batch b has 3 jobs, 2 of them accepted and both SUBMITTED at the
\* scheduler, 1 failed at submit time.
TwoSubmittedOneFailed(b) ==
    /\ b \in DOMAIN s3Output
    /\ s3Output[b].totalJobs = 3
    /\ s3Output[b].submitted = 2
    /\ s3Output[b].failed = 1
    /\ \A r \in 1..Len(s3Output[b].jobs) :
          s3Output[b].jobs[r].batchJobId # NoJobId
          => /\ s3Output[b].jobs[r].batchJobId \in DOMAIN batchJobs
             /\ batchJobs[s3Output[b].jobs[r].batchJobId] = "SUBMITTED"

\* What C10 and its amendment agree on: SUBMITTED = 2, overall PROCESSING and
\* a failedJobs list holding the one job that failed at submit time.
ExampleCommon(resp) ==
    /\ resp.statusCode = 200
    /\ resp.statusCounts["SUBMITTED"] = 2
    /\ resp.status = "PROCESSING"
    /\ resp.totalJobs = 3
    /\ Len(resp.failedJobs) = 1
    /\ resp.failedJobs[1].batchJobId = NoJobId
    /\ resp.totalFailed = 1

\* C10 as stated: the job that failed at submit time does not count as
\* completed, so progress is 0.0.
C10_ProgressZero ==
    [][\A b \in BatchIds :
          (GetBatchStatus(b) /\ TwoSubmittedOneFailed(b))
          => /\ ExampleCommon(statusOut'.resp)
             /\ statusOut'.resp.progress = 0]_vars

\* C10 amended: the job that failed at submit time is tallied FAILED and
\* counts as completed, so progress is 33.3.
C10_ProgressOneThird ==
    [][\A b \in BatchIds :
          (GetBatchStatus(b) /\ TwoSubmittedOneFailed(b))
          => /\ ExampleCommon(statusOut'.resp)
             /\ statusOut'.resp.statusCounts["FAILED"] = 1
             /\ statusOut'.resp.progress = 333]_vars

\* The response to the example batch.
C10_Witness ==
    /\ TwoSubmittedOneFailed(1)
    /\ "statusCounts" \in DOMAIN statusOut.resp
    /\ statusOut.resp.statusCounts["SUBMITTED"] = 2
    /\ statusOut.resp.totalFailed = 1

\* ---------------------------------------------------------------- C11 ----
\* The response held in statusOut answers a query for batch b.
Answers(out, b) ==
    /\ out.resp.statusCode = 200
    /\ out.resp.batchId = b

C12_CompletedIsFinal ==
    [][\A b \in BatchIds :
          (GetBatchStatus(b) /\ b \in completedSeen)
          => statusOut'.resp.status \notin {"RUNNING", "PENDING", "PROCESSING"}]_vars

\* ---------------------------------------------------------------- C13 ----
\* The backend ids of the outcome record of batch b.
RecordedIds(b) ==
    {s3Output[b].jobs[i].batchJobId : i \in 1..Len(s3Output[b].jobs)} \ {NoJobId}

\* C13: a status query for a batch with N >= 1 backend ids makes
\* ceil(N / 100) describe calls, each with 1 to 100 ids, and every id of the
\* record is in exactly one call.
C13_ChunksOfHundred ==
    \A b \in BatchIds :
       (Answers(statusOut, b) /\ b \in DOMAIN s3Output /\ RecordedIds(b) # {})
       => LET calls == statusOut.describeCalls
              N == Cardinality(RecordedIds(b))
          IN  /\ Len(calls) = (N + DescribeChunk - 1) \div DescribeChunk
              /\ \A c \in 1..Len(calls) : Len(calls[c]) \in 1..DescribeChunk
              /\ \A c \in 1..Len(calls) : \A k \in 1..Len(calls[c]) :
                    calls[c][k] \in RecordedIds(b)
              /\ \A id \in RecordedIds(b) :
                    Cardinality({c \in 1..Len(calls) :
                                   \E k \in 1..Len(calls[c]) : calls[c][k] = id}) = 1
              /\ \A c \in 1..Len(calls) : \A k, l \in 1..Len(calls[c]) :
                    calls[c][k] = calls[c][l] => k = l

\* A query for a batch of 201 backend ids: two calls of 100 ids and one of 1.
C13_Witness ==
    /\ Answers(statusOut, 1)
    /\ Len(statusOut.describeCalls) = 3
    /\ Len(statusOut.describeCalls[1]) = DescribeChunk
    /\ Len(statusOut.describeCalls[2]) = DescribeChunk
    /\ Len(statusOut.describeCalls[3]) = 1

\* ---------------------------------------------------------------- C14 ----
\* The positions in record b of the jobs that failed: at the scheduler (the
\* job has a backend id and the scheduler reports it FAILED) or at submission
\* (recorded FAILED with no backend id).
FailedPositions(b) ==
    {i \in 1..Len(s3Output[b].jobs) :
        LET job == s3Output[b].jobs[i]
        IN  \/ job.batchJobId # NoJobId /\ StatusNow(job) = "FAILED"
            \/ job.batchJobId = NoJobId /\ job.status = "FAILED"}

BackendFailed ==
    \E c \in 1..Len(jobOut.calls) : jobOut.calls[c].result.error

\* C15: extract_conversation_id does not raise: when the log backend or the
\* object listing fails, the job status response is still returned (200, with
\* the job's id and status) and its atxConversationId is null.
C15_ExtractorNeverRaises ==
    BackendFailed
    => /\ jobOut.resp.statusCode = 200
       /\ jobOut.resp.atxConversationId = NoConversation
       /\ jobOut.resp.status \in {"SUCCEEDED", "FAILED"}

\* The log events held no conversation id and the object listing failed.
C15_Witness ==
    /\ Len(jobOut.calls) = 2
    /\ jobOut.calls[1].api = "get_log_events"
    /\ ~jobOut.calls[1].result.error
    /\ jobOut.calls[2].api = "list_objects_v2"
    /\ jobOut.calls[2].result.error
    /\ jobOut.resp.statusCode = 200

\* ---------------------------------------------------------------- C16 ----
\* C16: the intent record of a batch is written once and never overwritten:
\* no key of the source bucket is put twice, whatever the times at which the
\* requests are accepted (two of them in the same second included).
C16_IntentNeverOverwritten ==
    \A b \in BatchIds : inWrites[b] <= 1

\* ---------------------------------------------------------------- C17 ----
\* The name as described: the last path segment of the source without a .git
\* or .zip suffix, a dash, and the last '/'-segment of the first word after
\* '-n ' ('transform' when there is none); spaces and underscores become
\* dashes and at most 128 characters are kept.
DescribedRepo(source) ==
    LET segment == Last(Split(source, Slash))
    IN  IF EndsWith(segment, DotGit) \/ EndsWith(segment, DotZip)
        THEN SubSeq(segment, 1, Len(segment) - 4)
        ELSE segment

DescribedTransform(command) ==
    LET after == IF Contains(command, CmdN) THEN SplitWs(Split(command, CmdN)[2])
                 ELSE <<>>
    IN  IF after = <<>> THEN StrTransform ELSE Last(Split(after[1], Slash))

DescribedName(source, command) ==
    LET name == DescribedRepo(source) \o Dash \o DescribedTransform(command)
        clean == [i \in 1..Len(name) |->
                     IF name[i] \in {" ", "_"} THEN "-" ELSE name[i]]
    IN  SubSeq(clean, 1, IF Len(clean) < NameLimit THEN Len(clean) ELSE NameLimit)

\* C17: a job that has a source and no jobName gets, from either handler
\* that accepts it, the name described.
C17_NameAsDescribed ==
    (nameOut.derived /\ nameOut.source # <<>>)
    => /\ nameOut.batch.outcome = "named"
       /\ nameOut.batch.name = DescribedName(nameOut.source, nameOut.command)
       /\ nameOut.single.outcome # "rejected"
           => /\ nameOut.single.outcome = "named"
              /\ nameOut.single.name = DescribedName(nameOut.source, nameOut.command)

\* ---------------------------------------------------------------- C18 ----
\* C18: terminate_job is called only by a request whose own describe has
\* just reported the job in a status other than SUCCEEDED and FAILED, and
\* for that job; a request for a job reported SUCCEEDED or FAILED is answered
\* 400, a request for a job the scheduler does not return is answered 404,
\* both without a terminate call.
C18_TerminateOnlyLiveJobs ==
    [][/\ term'.calls # term.calls
          => /\ term.pc = "terminate"
             /\ term.status \in StatusSet \ FinalStatuses
             /\ term'.calls = Append(term.calls, term.jobId)
       /\ \A id \in 1..MaxTermJobs :
             TermReceive(id, "ok")
             => /\ term'.pc = "terminate"
                   <=> (id \in DOMAIN batchJobs /\ batchJobs[id] \notin FinalStatuses)
                /\ term'.pc = "terminate"
                   => (term'.jobId = id /\ term'.status = batchJobs[id])
                /\ (id \in DOMAIN batchJobs /\ batchJobs[id] \in FinalStatuses)
                   => (term'.resp.statusCode = 400 /\ term'.resp.status = batchJobs[id])
                /\ id \notin DOMAIN batchJobs
                   => term'.resp.statusCode = 404]_vars

\* A terminate call has been issued for a job described RUNNING that had
\* finished by the second describe, and a later request for it met 400.
C18_Witness ==
    /\ term.calls = <<1>>
    /\ term.status = "SUCCEEDED"
    /\ term.resp.statusCode = 400
    /\ term.pc = "idle"

\* ---------------------------------------------------------------- C19 ----
\* C19: the write of the outcome record is issued only when the submission
\* attempt of every job has finished: at the step that issues it no submit
\* call is waiting to start or under way.
C19_WriteAfterAllAttempts ==
    [][(pool.pc = "put" /\ pool'.pc # "put")
       => /\ pool.issued = pool.n
          /\ pool.started = pool.n
          /\ pool.done = pool.n]_vars

\* The record of a batch of more jobs than workers has been written.
C19_Witness ==
    /\ pool.pc = "written"
    /\ pool.n > MaxWorkers
    /\ pool.done = pool.n

\* ---------------------------------------------------------------- C20 ----
\* C20: at no moment are more than 10 submit calls under way.
C20_AtMostTenInFlight ==
    pool.started - pool.done <= MaxWorkers

\* Ten calls are under way while an eleventh waits in the executor's queue.
C20_Witness ==
    /\ pool.started - pool.done = MaxWorkers
    /\ pool.issued > pool.started

LiveAnswer ==
    /\ "statusCounts" \in DOMAIN statusOut.resp
    /\ statusOut.resp.batchId \in DOMAIN s3Output

\* C22: in the job views of a live status query, a job with a backend id
\* has currentStatus equal to the scheduler's status for that id, or UNKNOWN
\* if the scheduler returned no entry for it, and a job without a backend
\* id has no currentStatus and its recorded status FAILED; everything else
\* in a view is as recorded.
C22_MergedCurrentStatus ==
    LiveAnswer =>
        LET recorded == s3Output[statusOut.resp.batchId].jobs
            views == statusOut.views
        IN  /\ Len(views) = Len(recorded)
            /\ \A i \in 1..Len(recorded) :
                   /\ \A k \in DOMAIN recorded[i] : views[i][k] = recorded[i][k]
                   /\ IF recorded[i].batchJobId # NoJobId
                      THEN /\ DOMAIN views[i] = DOMAIN recorded[i] \cup {"currentStatus"}
                           /\ views[i].currentStatus =
                                 IF recorded[i].batchJobId \in DOMAIN batchJobs
                                 THEN batchJobs[recorded[i].batchJobId]
                                 ELSE "UNKNOWN"
                      ELSE /\ DOMAIN views[i] = DOMAIN recorded[i]
                           /\ views[i].status = "FAILED"

\* A live answer for a batch with a job the scheduler still knows, a job it
\* no longer returns and a job that never got a backend id.
C22_Witness ==
    /\ LiveAnswer
    /\ \E i, j, k \in 1..Len(statusOut.views) :
          /\ statusOut.views[i].batchJobId \in DOMAIN batchJobs
          /\ statusOut.views[i].currentStatus = "RUNNING"
          /\ statusOut.views[j].batchJobId # NoJobId
          /\ statusOut.views[j].currentStatus = "UNKNOWN"
          /\ statusOut.views[k].batchJobId = NoJobId

\* ---------------------------------------------------------------- C23 ----
\* The last job status query ran the extractor and the handler answered.
ExtractionRan ==
    /\ jobOut.resp.statusCode = 200
    /\ jobOut.resp.status \in {"SUCCEEDED", "FAILED"}

\* The events get_log_events returned to the last query, in the order of the
\* response, which is the order of their timestamps (a page of a log stream
\* is returned oldest event first, startFromHead only selects the page); no
\* events if the call was not made or failed.
FetchedEvents ==
    IF \E c \in 1..Len(jobOut.calls) :
          jobOut.calls[c].api = "get_log_events" /\ ~jobOut.calls[c].result.error
    THEN jobOut.calls[CHOOSE c \in 1..Len(jobOut.calls) :
                         jobOut.calls[c].api = "get_log_events"].result.events
    ELSE <<>>

\* The keys list_objects_v2 returned to the last query; none if the call was
\* not made or failed.
ListedKeys ==
    IF \E c \in 1..Len(jobOut.calls) :
          jobOut.calls[c].api = "list_objects_v2" /\ ~jobOut.calls[c].result.error
    THEN jobOut.calls[CHOOSE c \in 1..Len(jobOut.calls) :
                         jobOut.calls[c].api = "list_objects_v2"].result.contents
    ELSE <<>>

\* The positions of the events and of the keys that hold a token, and the
\* token of an event: 'Conversation ID:' before the s3 path.
LogHits ==
    {i \in 1..Len(FetchedEvents) :
        \/ FetchedEvents[i].conv # NoConversation
        \/ FetchedEvents[i].path # NoConversation}

KeyHits ==
    {i \in 1..Len(ListedKeys) : ListedKeys[i] # NoConversation}

TokenOfEvent(i) ==
    IF FetchedEvents[i].conv # NoConversation
    THEN FetchedEvents[i].conv ELSE FetchedEvents[i].path

Listed ==
    \E c \in 1..Len(jobOut.calls) : jobOut.calls[c].api = "list_objects_v2"

\* C23 as stated: the token returned is that of the newest log event that
\* holds one; the objects are listed only if no event held one; with no
\* event holding one, the token is that of the first listed key holding
\* one; none is returned only if no event and no listed key holds one.
C23_NewestLogLineWins ==
    ExtractionRan
    => /\ LogHits # {}
            => jobOut.resp.atxConversationId =
                  TokenOfEvent(CHOOSE i \in LogHits : \A j \in LogHits : j <= i)
       /\ Listed => LogHits = {}
       /\ (LogHits = {} /\ KeyHits # {})
            => jobOut.resp.atxConversationId =
                  ListedKeys[CHOOSE i \in KeyHits : \A j \in KeyHits : i <= j]
       /\ jobOut.resp.atxConversationId = NoConversation
            => (LogHits = {} /\ KeyHits = {})

\* C23, amended: the events are scanned in the order of the response, which
\* is oldest first, and the first one holding a token wins; the objects are
\* listed only if no event held one, and not at all if get_log_events
\* failed; with no event holding one, the token is that of the first listed
\* key holding one; none is returned exactly if no fetched event and no
\* listed key holds one, a failed call counting as fetching nothing.
C23_FirstReturnedLineWins ==
    ExtractionRan
    => /\ LogHits # {}
            => jobOut.resp.atxConversationId =
                  TokenOfEvent(CHOOSE i \in LogHits : \A j \in LogHits : i <= j)
       /\ Listed => /\ LogHits = {}
                    /\ \A c \in 1..Len(jobOut.calls) :
                          jobOut.calls[c].api = "get_log_events"
                          => ~jobOut.calls[c].result.error
       /\ (LogHits = {} /\ KeyHits # {})
            => jobOut.resp.atxConversationId =
                  ListedKeys[CHOOSE i \in KeyHits : \A j \in KeyHits : i <= j]
       /\ jobOut.resp.atxConversationId = NoConversation
            <=> (LogHits = {} /\ KeyHits = {})

\* Two fetched events hold different tokens and the older one's is returned.
C23_Witness ==
    /\ ExtractionRan
    /\ Len(FetchedEvents) = 2
    /\ LogHits = {1, 2}
    /\ TokenOfEvent(1) # TokenOfEvent(2)
    /\ jobOut.resp.atxConversationId = TokenOfEvent(1)

\* ---------------------------------------------------------------- C24 ----
\* No job of a stored outcome record carries the currentStatus annotation.
NoAnnotationStored(bucket) ==
    \A key \in DOMAIN bucket : \A i \in 1..Len(bucket[key].jobs) :
       "currentStatus" \notin DOMAIN bucket[key].jobs[i]

\* C24: no step of a status query, whatever other status queries are in
\* progress, writes to the source or the output bucket: the intent and
\* outcome records are as they were, no stored job carries currentStatus,
\* and the step changes the memory of its own execution only.
C24_StatusNeverWrites ==
    [][queries' # queries
       => /\ UNCHANGED <<s3Source, s3Output, inWrites, outWrites>>
          /\ NoAnnotationStored(s3Output')
          /\ Cardinality({q \in Queries : queries'[q] # queries[q]}) = 1]_vars

\* Two status queries for batch 1 have built their responses at the same
\* time from different answers of the scheduler; the annotations differ
\* and the stored records have none.
C24_Witness ==
    /\ \A q \in Queries :
          /\ queries[q].pc = "done"
          /\ Len(queries[q].out.views) >= 1
          /\ "currentStatus" \in DOMAIN queries[q].out.views[1]
    /\ queries["q1"].out.views[1].currentStatus = "RUNNING"
    /\ queries["q2"].out.views[1].currentStatus = "UNKNOWN"
    /\ 1 \in DOMAIN s3Source
    /\ NoAnnotationStored(s3Output)

\* ---------------------------------------------------------------- C25 ----
\* The jobs of the answered batch's outcome record that have a backend id
\* the scheduler returns no entry for: the jobs annotated UNKNOWN.
UnknownJobs ==
    LET recorded == s3Output[statusOut.resp.batchId].jobs
    IN  {i \in 1..Len(recorded) :
            /\ recorded[i].batchJobId # NoJobId
            /\ recorded[i].batchJobId \notin DOMAIN batchJobs}

SumOfCounts ==
    LET c == statusOut.resp.statusCounts
    IN  c["SUBMITTED"] + c["PENDING"] + c["RUNNABLE"] + c["STARTING"]
        + c["RUNNING"] + c["SUCCEEDED"] + c["FAILED"]

\* C25: in a response of the live-query path the seven statusCounts add up
\* to the number of jobs of the outcome record less the number of jobs
\* annotated UNKNOWN, and a batch with such a job is not reported COMPLETED.
C25_CountsSkipUnknown ==
    LiveAnswer
    => /\ SumOfCounts <= Len(s3Output[statusOut.resp.batchId].jobs)
       /\ SumOfCounts = Len(s3Output[statusOut.resp.batchId].jobs)
                          - Cardinality(UnknownJobs)
       /\ UnknownJobs # {} => statusOut.resp.status # "COMPLETED"

\* A live answer for a batch whose other jobs have all finished and one job
\* of which the scheduler no longer returns.
C25_Witness ==
    /\ LiveAnswer
    /\ Cardinality(UnknownJobs) = 1
    /\ SumOfCounts = 2
    /\ statusOut.resp.statusCounts["SUCCEEDED"]
         + statusOut.resp.statusCounts["FAILED"] = 2
    /\ statusOut.resp.status = "PROCESSING"
====
